---- MODULE Spec2Model ----
(***************************************************************************)
(* Outbox relay of the monolith: the outbox_events table, the repository   *)
(* statements that change it, and the relay polling loop run by several    *)
(* relay processes against the same table and the same Kafka log.          *)
(***************************************************************************)
EXTENDS Integers, Sequences, FiniteSets, TLC

\* ---------------------------------------------------------------- bounds
NumWorkers == 2          \* relay processes sharing the table
NumEvents == 1           \* rows of outbox_events
MaxTime == 2             \* the clock stops advancing here
MaxCrashes == 1          \* process kills over a run
ProcessingTimeout == 1   \* RELAY_PROCESSING_TIMEOUT, in clock units
BatchSize == 1           \* RELAY_BATCH_SIZE
MaxFailures == 2         \* store failures injected over a run
NumCalls == 2            \* UserService calls over a run
Scale == 2               \* clock ticks per second, and token units per token
MaxCapacity == 2         \* largest Config.Capacity, in tokens
TTLSeconds == 1          \* Config.TTL, in seconds
MaxClock == 3            \* Redis TIME stops advancing here, in ticks
MaxOps == 3              \* limiter calls over a run
MaxKeyOps == 2           \* limiter calls over a run on several keys
WindowSize == 2          \* SlidingWindowConfig.WindowSize, in milliseconds
MaxRequests == 2         \* SlidingWindowConfig.MaxRequests
WindowTTL == 3           \* SlidingWindowConfig.TTL, in clock steps of the window model
MaxSkew == 2             \* how far a caller's timestamp may lag, in milliseconds
MaxWClock == 4           \* the window model's clock stops advancing here
MaxWOps == 4             \* window calls over a run
MaxMessages == 3         \* events handed to the producer over a run
NumRows == 2             \* rows inserted into the table of the batch model
BatchLimit == 2          \* RELAY_BATCH_SIZE of the batch model
MaxCreatedAt == 1        \* latest created_at of an inserted row
MaxMaxRetries == 1       \* largest max_retries of an inserted row
MaxPartitions == 3       \* largest partition count asked for
MaxPartitionCalls == 3   \* GetPartition calls over a run
NumCallers == 3          \* goroutines calling Start on one Relay
MaxStops == 2            \* Stop calls over a run

\* ------------------------------------------------------ program constants
DefaultMaxRetries == 3
MaxInt32 == 2147483647
MinInt32 == -2147483647 - 1
RefillRate == 1          \* Config.RefillRate of the test buckets, tokens per second

Workers == 1..NumWorkers
Events == 1..NumEvents
Calls == 1..NumCalls
Capacities == 1..MaxCapacity
Keys == {"user1", "user2"}
Callers == 1..NumCallers

StatusNew == "NEW"
StatusProcessing == "PROCESSING"
StatusSent == "SENT"
StatusFailed == "FAILED"

NoTime == -1                       \* SQL NULL in processed_at
NoError == "NULL"                  \* SQL NULL in error_message
ExceededMsg == "exceeded maximum retry attempts"
PublishErr == "publish error"      \* err.Error() of a failed PublishEvent

VARIABLES
    outbox,          \* outbox_events: row per event id
    now,             \* time.Now()
    pc,              \* where each relay process is
    batch,           \* events selected by processOutboxEvents, not yet processed
    published,       \* messages of each event accepted by the log
    crashes,         \* process kills so far
    refused,         \* history: rows on which a claim was refused (zero rows affected)
    claims,          \* history: successful claims of each row
    resets,          \* history: times each row was returned to NEW by recovery
    ctxDone,         \* the context handed to each Relay.Start is cancelled
    logged,          \* errors each relay process has logged
    failures,        \* store failures injected so far
    db,              \* the database the UserService writes: users, outbox rows, open transactions
    call,            \* the UserService calls: kind, position, returned error
    bucket,          \* the Redis hash of the bucket key, or Absent
    clock,           \* Redis TIME
    config,          \* Config of the RedisTokenBucket in use
    reply,           \* what the last limiter call returned
    hist,            \* history of the limiter calls
    store,           \* the Redis hashes of several bucket keys, by Redis key
    touched,         \* history: the bucket keys that calls have named
    zset,            \* the Redis sorted set of the window key, or NoSet
    wnow,            \* the time, in milliseconds
    wreply,          \* what the last window call returned
    whist            \* history of the window calls

relayVars == <<outbox, now, pc, batch, published, crashes, refused, claims, resets>>
loopVars == <<ctxDone, logged, failures>>
writerVars == <<db, call>>
bucketVars == <<bucket, clock, config, reply, hist>>
storeVars == <<store, touched>>
windowVars == <<zset, wnow, wreply, whist>>

VARIABLES
    messages        \* what the producer handed to the broker, in order

producerVars == <<messages>>

VARIABLES
    table,          \* outbox_events with several rows, in order of insertion
    tnow,           \* time.Now() of the batch model
    tpc,            \* where each relay process of the batch model is
    tbatch,         \* its selected events not yet processed
    tlog            \* history: what it did since its last select, in order

tableVars == <<table, tnow, tpc, tbatch, tlog>>

VARIABLES
    counter,        \* RoundRobinPartitionStrategy.counter
    partition,      \* the last GetPartition call: strategy, key, count, index returned
    pcalls          \* GetPartition calls so far

partitionVars == <<counter, partition, pcalls>>

VARIABLES
    running,        \* Relay.running of one Relay object
    cpc,            \* where each goroutine calling Start on that object is
    cctx,           \* the context handed to each Start call is cancelled
    stops           \* Stop calls so far

startVars == <<running, cpc, cctx, stops>>

vars == <<relayVars, loopVars, writerVars, bucketVars, storeVars, windowVars, producerVars, tableVars, partitionVars, startVars>>

\* ------------------------------------------------------------ repository

\* a row as CreateOutboxEvent inserts it; created_at order is the id order
NewRow(maxRetries) ==
    [status |-> StatusNew, processed_at |-> NoTime, retry_count |-> 0,
     max_retries |-> maxRetries, error_message |-> NoError]

\* the in-memory models.OutboxEvent scanned from a row
Snapshot(tbl, id) ==
    [ID |-> id, RetryCount |-> tbl[id].retry_count, MaxRetries |-> tbl[id].max_retries]

GetPendingOutboxEvents(tbl, limit) ==
    LET ids == SelectSeq([i \in 1..Len(tbl) |-> i], LAMBDA i : tbl[i].status = StatusNew)
        n == IF Len(ids) < limit THEN Len(ids) ELSE limit
    IN [k \in 1..n |-> Snapshot(tbl, ids[k])]

MarkEventAsProcessing_NoStatusCheck(tbl, id, t) ==
    [tbl |-> [tbl EXCEPT ![id].status = StatusProcessing, ![id].processed_at = t],
     rowsAffected |-> 1]

MarkEventAsProcessing(tbl, id, t) ==
    IF tbl[id].status = StatusNew
    THEN [tbl |-> [tbl EXCEPT ![id].status = StatusProcessing, ![id].processed_at = t],
          rowsAffected |-> 1]
    ELSE [tbl |-> tbl, rowsAffected |-> 0]

MarkEventAsSent_OnlyTimestamp(tbl, id, t) ==
    [tbl EXCEPT ![id].processed_at = t]

MarkEventAsSent(tbl, id, t) ==
    [tbl EXCEPT ![id].status = StatusSent, ![id].processed_at = t]

MarkEventAsFailed(tbl, id, errorMsg, t) ==
    [tbl EXCEPT ![id].status = StatusFailed,
                ![id].retry_count = @ + 1,
                ![id].error_message = errorMsg,
                ![id].processed_at = t]

ResetStaleProcessingEvents_Inclusive(tbl, cutoff) ==
    [e \in DOMAIN tbl |->
        IF tbl[e].status = StatusProcessing
           /\ tbl[e].processed_at # NoTime /\ tbl[e].processed_at <= cutoff
        THEN [tbl[e] EXCEPT !.status = StatusNew, !.processed_at = NoTime]
        ELSE tbl[e]]

ResetStaleProcessingEvents(tbl, cutoff) ==
    [e \in DOMAIN tbl |->
        IF tbl[e].status = StatusProcessing
           /\ tbl[e].processed_at # NoTime /\ tbl[e].processed_at < cutoff
        THEN [tbl[e] EXCEPT !.status = StatusNew, !.processed_at = NoTime]
        ELSE tbl[e]]

\* ------------------------------------------------------------------ relay

Running(w) == pc[w] \notin {"init", "crashed"}

\* after the event at the head of the batch: next event, or back to the ticker
AfterEvent(w) == IF Len(batch[w]) > 1 THEN "events" ELSE "ticker"

\* no context is cancelled, nothing has failed
InitLoop ==
    /\ ctxDone = [w \in Workers |-> FALSE]
    /\ logged = [w \in Workers |-> 0]
    /\ failures = 0

\* a transaction that was never begun, or is over: it holds no writes
NoTx(state) == [state |-> state, users |-> {}, events |-> {}]

\* empty users and outbox tables, no UserService call made yet
InitWriter ==
    /\ db = [users |-> {}, events |-> {}, tx |-> [c \in Calls |-> NoTx("none")]]
    /\ call = [c \in Calls |-> [kind |-> "none", userID |-> 0, pc |-> "idle", err |-> "nil"]]

\* no hash at the key
Absent ==
    [exists |-> FALSE, tokens |-> 0, last_refill |-> 0, capacity |-> 0,
     refill_rate |-> 0, expires_at |-> 0]

\* a float64: NaN, or a number, held as the count v of 1/Scale-ths
Float(n) == [nan |-> FALSE, v |-> n * Scale]

\* the float64 u/Scale
Fraction(u) == [nan |-> FALSE, v |-> u]

NaN == [nan |-> TRUE, v |-> 0]

\* what a call returned (and, for an HTTP request, its query parameters)
NoReply ==
    [op |-> "none", tokens |-> Float(0), err |-> "nil", allowed |-> FALSE,
     remaining |-> 0, retry_after |-> 0, ttl |-> 0, status |-> 0,
     key |-> "", query |-> "", headers |-> {}, forwarded |-> FALSE]

\* an empty store, no limiter created yet, nothing called
InitBucket ==
    /\ bucket = Absent
    /\ clock = 0
    /\ config = [Capacity |-> 0]
    /\ reply = NoReply
    /\ hist = [ops |-> 0, grants |-> [t \in 0..MaxClock |-> 0],
               burst |-> [valid |-> FALSE, calls |-> 0, allowed |-> 0],
               plain |-> TRUE, reborn |-> FALSE]

\* the prefixed name under which the bucket of a key is stored
keyName_OneName(key) == "token_bucket:"

keyName(key) == "token_bucket:" \o key

RedisKeys == {keyName(key) : key \in Keys}

\* no bucket key holds a record, no call has named a key
InitStore ==
    /\ store = [rk \in RedisKeys |-> Absent]
    /\ touched = {}

\* no sorted set at the key
NoSet == [exists |-> FALSE, members |-> {}, expires_at |-> 0]

\* a SlidingWindowResult; retry_after as the script returns it, in milliseconds
NoWReply ==
    [op |-> "none", allowed |-> FALSE, current_count |-> 0, window_start |-> 0,
     window_end |-> 0, retry_after |-> 0]

\* a consecutive run of allowed calls since the set was last empty
NoRun == [valid |-> TRUE, n |-> 0]

\* an empty store, nothing called
InitWindow ==
    /\ zset = NoSet
    /\ wnow = 0
    /\ wreply = NoWReply
    /\ whist = [ops |-> 0, allowed |-> [t \in 0..MaxWClock |-> 0], run |-> NoRun,
                since_clear |-> [valid |-> FALSE, calls |-> 0, allowed |-> 0]]

\* an empty table, no relay process started
InitTable ==
    /\ table = <<>>
    /\ tnow = 0
    /\ tpc = [w \in Workers |-> "init"]
    /\ tbatch = [w \in Workers |-> <<>>]
    /\ tlog = [w \in Workers |-> <<>>]

NoPartition == [strategy |-> "none", key |-> "", numPartitions |-> 0, index |-> 0]

\* a new round-robin strategy, no partition asked for yet
InitPartition ==
    /\ counter = 0
    /\ partition = NoPartition
    /\ pcalls = 0

\* NewRelay: running is false, nobody has called Start
InitStart ==
    /\ running = FALSE
    /\ cpc = [g \in Callers |-> "idle"]
    /\ cctx = [g \in Callers |-> FALSE]
    /\ stops = 0

\* nothing produced yet
InitProducer == messages = <<>>

Init ==
    /\ outbox = [e \in Events |-> NewRow(DefaultMaxRetries)]
    /\ now = 0
    /\ pc = [w \in Workers |-> "init"]
    /\ batch = [w \in Workers |-> <<>>]
    /\ published = [e \in Events |-> 0]
    /\ crashes = 0
    /\ refused = [e \in Events |-> FALSE]
    /\ claims = [e \in Events |-> 0]
    /\ resets = [e \in Events |-> 0]
    /\ InitLoop
    /\ InitWriter
    /\ InitBucket
    /\ InitStore
    /\ InitWindow
    /\ InitProducer
    /\ InitTable
    /\ InitPartition
    /\ InitStart

Start_NoRecovery(w) ==
    /\ ~Running(w)
    /\ pc' = [pc EXCEPT ![w] = "ticker"]
    /\ batch' = [batch EXCEPT ![w] = <<>>]
    /\ UNCHANGED <<outbox, now, published, crashes, refused, claims, resets>>
    /\ UNCHANGED <<loopVars, writerVars, bucketVars, storeVars, windowVars, producerVars, tableVars, partitionVars, startVars>>

\* Relay.Start up to the first wait on the ticker: the startup recovery pass
Start(w) ==
    /\ ~Running(w)
    /\ outbox' = ResetStaleProcessingEvents(outbox, now - ProcessingTimeout)
    /\ resets' = [e \in Events |->
            IF outbox[e].status # StatusNew /\ outbox'[e].status = StatusNew
            THEN resets[e] + 1 ELSE resets[e]]
    /\ pc' = [pc EXCEPT ![w] = "ticker"]
    /\ batch' = [batch EXCEPT ![w] = <<>>]
    /\ UNCHANGED <<now, published, crashes, refused, claims>>
    /\ UNCHANGED <<loopVars, writerVars, bucketVars, storeVars, windowVars, producerVars, tableVars, partitionVars, startVars>>

\* a tick of the polling loop: processOutboxEvents selects the batch
ProcessOutboxEvents(w) ==
    /\ pc[w] = "ticker"
    /\ LET events == GetPendingOutboxEvents(outbox, BatchSize)
       IN /\ batch' = [batch EXCEPT ![w] = events]
          /\ pc' = [pc EXCEPT ![w] = IF Len(events) = 0 THEN "ticker" ELSE "events"]
    /\ UNCHANGED <<outbox, now, published, crashes, refused, claims, resets>>
    /\ UNCHANGED <<loopVars, writerVars, bucketVars, storeVars, windowVars, producerVars, tableVars, partitionVars, startVars>>

\* processEvent up to the claim: the retry-budget check on the selected event,
\* then the claim transaction (MarkEventAsProcessing and commit)
ProcessEvent(w) ==
    /\ pc[w] = "events"
    /\ LET event == Head(batch[w])
           res == MarkEventAsProcessing(outbox, event.ID, now)
       IN IF event.RetryCount >= event.MaxRetries
          THEN /\ outbox' = MarkEventAsFailed(outbox, event.ID, ExceededMsg, now)
               /\ pc' = [pc EXCEPT ![w] = AfterEvent(w)]
               /\ batch' = [batch EXCEPT ![w] = Tail(@)]
               /\ UNCHANGED <<refused, claims>>
          ELSE /\ outbox' = res.tbl
               /\ refused' = [refused EXCEPT ![event.ID] = @ \/ res.rowsAffected = 0]
               /\ IF res.rowsAffected = 0
                  THEN /\ pc' = [pc EXCEPT ![w] = AfterEvent(w)]
                       /\ batch' = [batch EXCEPT ![w] = Tail(@)]
                       /\ UNCHANGED claims
                  ELSE /\ pc' = [pc EXCEPT ![w] = "publish"]
                       /\ UNCHANGED batch
                       /\ claims' = [claims EXCEPT ![event.ID] = @ + 1]
    /\ UNCHANGED <<now, published, crashes, resets>>
    /\ UNCHANGED <<loopVars, writerVars, bucketVars, storeVars, windowVars, producerVars, tableVars, partitionVars, startVars>>

\* processEvent, producer.PublishEvent: the log accepts the message or the call fails
Publish(w) ==
    /\ pc[w] = "publish"
    /\ \E ok \in BOOLEAN :
        IF ok
        THEN /\ published' = [published EXCEPT ![Head(batch[w]).ID] = @ + 1]
             /\ pc' = [pc EXCEPT ![w] = "markSent"]
        ELSE /\ UNCHANGED published
             /\ pc' = [pc EXCEPT ![w] = "markFailed"]
    /\ UNCHANGED <<outbox, now, batch, crashes, refused, claims, resets>>
    /\ UNCHANGED <<loopVars, writerVars, bucketVars, storeVars, windowVars, producerVars, tableVars, partitionVars, startVars>>

\* markEventAsSent
MarkSent(w) ==
    /\ pc[w] = "markSent"
    /\ outbox' = MarkEventAsSent(outbox, Head(batch[w]).ID, now)
    /\ pc' = [pc EXCEPT ![w] = AfterEvent(w)]
    /\ batch' = [batch EXCEPT ![w] = Tail(@)]
    /\ UNCHANGED <<now, published, crashes, refused, claims, resets>>
    /\ UNCHANGED <<loopVars, writerVars, bucketVars, storeVars, windowVars, producerVars, tableVars, partitionVars, startVars>>

\* markEventAsFailed after a failed publish
MarkFailed(w) ==
    /\ pc[w] = "markFailed"
    /\ outbox' = MarkEventAsFailed(outbox, Head(batch[w]).ID, PublishErr, now)
    /\ pc' = [pc EXCEPT ![w] = AfterEvent(w)]
    /\ batch' = [batch EXCEPT ![w] = Tail(@)]
    /\ UNCHANGED <<now, published, crashes, refused, claims, resets>>
    /\ UNCHANGED <<loopVars, writerVars, bucketVars, storeVars, windowVars, producerVars, tableVars, partitionVars, startVars>>

\* the relay process is killed; what it held in memory is lost
Kill(w) ==
    /\ Running(w)
    /\ crashes < MaxCrashes
    /\ crashes' = crashes + 1
    /\ pc' = [pc EXCEPT ![w] = "crashed"]
    /\ batch' = [batch EXCEPT ![w] = <<>>]
    /\ UNCHANGED <<outbox, now, published, refused, claims, resets>>
    /\ UNCHANGED <<loopVars, writerVars, bucketVars, storeVars, windowVars, producerVars, tableVars, partitionVars, startVars>>

\* time passes
Tick ==
    /\ now < MaxTime
    /\ now' = now + 1
    /\ UNCHANGED <<outbox, pc, batch, published, crashes, refused, claims, resets>>
    /\ UNCHANGED <<loopVars, writerVars, bucketVars, storeVars, windowVars, producerVars, tableVars, partitionVars, startVars>>

Next ==
    \/ \E w \in Workers : Start(w)
    \/ \E w \in Workers : ProcessOutboxEvents(w)
    \/ \E w \in Workers : ProcessEvent(w)
    \/ \E w \in Workers : Publish(w)
    \/ \E w \in Workers : MarkSent(w)
    \/ \E w \in Workers : MarkFailed(w)
    \/ \E w \in Workers : Kill(w)
    \/ Tick

Spec == Init /\ [][Next]_vars

TypeOK ==
    /\ now \in 0..MaxTime
    /\ crashes \in 0..MaxCrashes
    /\ \A e \in Events :
        /\ outbox[e].status \in {StatusNew, StatusProcessing, StatusSent, StatusFailed}
        /\ outbox[e].processed_at \in {NoTime} \cup (0..MaxTime)
        /\ outbox[e].retry_count \in Nat
        /\ outbox[e].error_message \in {NoError, ExceededMsg, PublishErr}
        /\ published[e] \in Nat
    /\ \A w \in Workers :
        pc[w] \in {"init", "crashed", "ticker", "events", "publish", "markSent", "markFailed"}

\* the running relay processes keep taking their steps and time keeps passing;
\* nothing obliges anyone to start or restart a relay process
LiveSpec ==
    /\ Spec
    /\ WF_vars(Tick)
    /\ \A w \in Workers :
        WF_vars(ProcessOutboxEvents(w) \/ ProcessEvent(w) \/ Publish(w)
                \/ MarkSent(w) \/ MarkFailed(w))

\* PublishEvent against a broker that accepts every message
PublishSucceeds(w) == Publish(w) /\ pc'[w] = "markSent"

\* the relay processes with a publisher that succeeds, none of them killed
NextDelivering ==
    \/ \E w \in Workers : Start(w)
    \/ \E w \in Workers : ProcessOutboxEvents(w)
    \/ \E w \in Workers : ProcessEvent(w)
    \/ \E w \in Workers : PublishSucceeds(w)
    \/ \E w \in Workers : MarkSent(w)
    \/ Tick

\* ... and every running polling loop keeps taking its steps
SpecDelivering ==
    /\ Init /\ [][NextDelivering]_vars
    /\ WF_vars(Tick)
    /\ \A w \in Workers :
        WF_vars(ProcessOutboxEvents(w) \/ ProcessEvent(w) \/ PublishSucceeds(w) \/ MarkSent(w))

\* ------------------------------------------- relay loop: failures, shutdown

\* what a relay process does with an error a store call returned: log.Printf
LogFailure(w) ==
    /\ failures < MaxFailures
    /\ failures' = failures + 1
    /\ logged' = [logged EXCEPT ![w] = @ + 1]
    /\ UNCHANGED ctxDone

\* Relay.Start when ResetStaleProcessingEvents fails: a warning, then the loop
StartRecoveryFails(w) ==
    /\ ~Running(w)
    /\ LogFailure(w)
    /\ pc' = [pc EXCEPT ![w] = "ticker"]
    /\ batch' = [batch EXCEPT ![w] = <<>>]
    /\ UNCHANGED <<outbox, now, published, crashes, refused, claims, resets>>
    /\ UNCHANGED <<writerVars, bucketVars, storeVars, windowVars, producerVars, tableVars, partitionVars, startVars>>

SelectFails_TearsDown(w) ==
    /\ pc[w] = "ticker"
    /\ LogFailure(w)
    /\ pc' = [pc EXCEPT ![w] = "returned"]
    /\ UNCHANGED <<outbox, now, batch, published, crashes, refused, claims, resets>>
    /\ UNCHANGED <<writerVars, bucketVars, storeVars, windowVars, producerVars, tableVars, partitionVars, startVars>>

\* a tick on which GetPendingOutboxEvents fails: processOutboxEvents returns
\* the error, the loop logs it and waits for the next tick
SelectFails(w) ==
    /\ pc[w] = "ticker"
    /\ LogFailure(w)
    /\ pc' = [pc EXCEPT ![w] = "ticker"]
    /\ UNCHANGED <<outbox, now, batch, published, crashes, refused, claims, resets>>
    /\ UNCHANGED <<writerVars, bucketVars, storeVars, windowVars, producerVars, tableVars, partitionVars, startVars>>

ProcessEventFails_Publishes(w) ==
    /\ pc[w] = "events"
    /\ LogFailure(w)
    /\ pc' = [pc EXCEPT ![w] = "publish"]
    /\ UNCHANGED <<outbox, now, batch, published, crashes, refused, claims, resets>>
    /\ UNCHANGED <<writerVars, bucketVars, storeVars, windowVars, producerVars, tableVars, partitionVars, startVars>>

\* processEvent when BeginTx, MarkEventAsProcessing or the claim's Commit
\* fails: the claim is rolled back, the error logged, the next event taken
ProcessEventFails(w) ==
    /\ pc[w] = "events"
    /\ LogFailure(w)
    /\ pc' = [pc EXCEPT ![w] = AfterEvent(w)]
    /\ batch' = [batch EXCEPT ![w] = Tail(@)]
    /\ UNCHANGED <<outbox, now, published, crashes, refused, claims, resets>>
    /\ UNCHANGED <<writerVars, bucketVars, storeVars, windowVars, producerVars, tableVars, partitionVars, startVars>>

\* markEventAsSent / markEventAsFailed when its transaction fails: the row
\* stays as it is, the error is logged, the next event taken
MarkFails(w) ==
    /\ pc[w] \in {"markSent", "markFailed"}
    /\ LogFailure(w)
    /\ pc' = [pc EXCEPT ![w] = AfterEvent(w)]
    /\ batch' = [batch EXCEPT ![w] = Tail(@)]
    /\ UNCHANGED <<outbox, now, published, crashes, refused, claims, resets>>
    /\ UNCHANGED <<writerVars, bucketVars, storeVars, windowVars, producerVars, tableVars, partitionVars, startVars>>

\* the context handed to Start is cancelled
Cancel(w) ==
    /\ Running(w)
    /\ pc[w] # "returned"
    /\ ~ctxDone[w]
    /\ ctxDone' = [ctxDone EXCEPT ![w] = TRUE]
    /\ UNCHANGED <<relayVars, logged, failures, writerVars, bucketVars, storeVars, windowVars, producerVars, tableVars, partitionVars, startVars>>

\* the select of the loop takes <-ctx.Done(): Start returns ctx.Err()
Return(w) ==
    /\ pc[w] = "ticker"
    /\ ctxDone[w]
    /\ pc' = [pc EXCEPT ![w] = "returned"]
    /\ UNCHANGED <<outbox, now, batch, published, crashes, refused, claims, resets>>
    /\ UNCHANGED <<loopVars, writerVars, bucketVars, storeVars, windowVars, producerVars, tableVars, partitionVars, startVars>>

NextLoop ==
    \/ \E w \in Workers : Start(w)
    \/ \E w \in Workers : StartRecoveryFails(w)
    \/ \E w \in Workers : ProcessOutboxEvents(w)
    \/ \E w \in Workers : SelectFails(w)
    \/ \E w \in Workers : ProcessEvent(w)
    \/ \E w \in Workers : ProcessEventFails(w)
    \/ \E w \in Workers : Publish(w)
    \/ \E w \in Workers : MarkSent(w)
    \/ \E w \in Workers : MarkFailed(w)
    \/ \E w \in Workers : MarkFails(w)
    \/ \E w \in Workers : Cancel(w)
    \/ \E w \in Workers : Return(w)

SpecLoop == Init /\ [][NextLoop]_vars

\* ------------------------------------------------------------ user service

\* the transaction of call c, as the repository statements run on it: writes
\* made on tx are pending until Commit and are discarded by Rollback

BeginTx(d, c) == [d EXCEPT !.tx[c] = NoTx("open")]

\* INSERT INTO users / UPDATE users, executed on tx
CreateUser(d, c, id) == [d EXCEPT !.tx[c].users = @ \cup {[tx |-> c, id |-> id]}]

UpdateUser(d, c, id) == [d EXCEPT !.tx[c].users = @ \cup {[tx |-> c, id |-> id]}]

\* CreateUserCreatedEvent / CreateUserUpdatedEvent: the row to insert
CreateUserEvent(c, id, eventType) ==
    [tx |-> c, aggregate_id |-> id, event_type |-> eventType,
     row |-> NewRow(DefaultMaxRetries)]

CreateOutboxEvent_Autocommit(d, c, ev) == [d EXCEPT !.events = @ \cup {ev}]

\* INSERT INTO outbox_events, executed on tx
CreateOutboxEvent(d, c, ev) == [d EXCEPT !.tx[c].events = @ \cup {ev}]

Commit(d, c) ==
    [d EXCEPT !.users = @ \cup d.tx[c].users,
              !.events = @ \cup d.tx[c].events,
              !.tx[c] = NoTx("committed")]

\* a no-op on a transaction that is already over (sql.ErrTxDone)
Rollback(d, c) ==
    IF d.tx[c].state = "open" THEN [d EXCEPT !.tx[c] = NoTx("rolledback")] ELSE d

\* SELECT ... FROM users WHERE id, on the connection pool: committed rows only
GetUserByID(d, id) == \E r \in d.users : r.id = id

SimulatedCrash == "simulated crash after database write"

EventTypeOf(kind) == IF kind = "UpdateUser" THEN "user.updated" ELSE "user.created"

\* a return with err set: the deferred function of CreateUser/UpdateUser rolls
\* back because err != nil, the one of TestCrashScenario always rolls back
ReturnErr(c, d, msg) ==
    /\ db' = Rollback(d, c)
    /\ call' = [call EXCEPT ![c].pc = "done", ![c].err = msg]

\* entry of CreateUser, UpdateUser(userID) or TestCrashScenario(crashAfterDB =
\* true), up to BeginTx; TestCrashScenario(false) is a CreateUser call
BeginCall(c) ==
    /\ call[c].pc = "idle"
    /\ \E kind \in {"CreateUser", "UpdateUser", "TestCrashScenario"} :
       \E target \in Calls : \E ok \in BOOLEAN :
        LET id == IF kind = "UpdateUser" THEN target ELSE c
        IN /\ kind # "UpdateUser" => target = c
           /\ IF ok
              THEN /\ db' = BeginTx(db, c)
                   /\ call' = [call EXCEPT ![c] =
                        [kind |-> kind, userID |-> id, pc |-> "begun", err |-> "nil"]]
              ELSE /\ db' = db
                   /\ call' = [call EXCEPT ![c] =
                        [kind |-> kind, userID |-> id, pc |-> "done",
                         err |-> "failed to begin transaction"]]
    /\ UNCHANGED <<relayVars, loopVars, bucketVars, storeVars, windowVars, producerVars, tableVars, partitionVars, startVars>>

\* UpdateUser: the existing user is read before anything is written; when it
\* is missing the call returns with err still nil, so nothing rolls back tx
GetExistingUser(c) ==
    /\ call[c].pc = "begun"
    /\ call[c].kind = "UpdateUser"
    /\ \E ok \in BOOLEAN :
        IF ~ok THEN ReturnErr(c, db, "failed to get user")
        ELSE IF ~GetUserByID(db, call[c].userID)
        THEN /\ call' = [call EXCEPT ![c].pc = "done", ![c].err = "user not found"]
             /\ db' = db
        ELSE /\ call' = [call EXCEPT ![c].pc = "read"]
             /\ db' = db
    /\ UNCHANGED <<relayVars, loopVars, bucketVars, storeVars, windowVars, producerVars, tableVars, partitionVars, startVars>>

\* repo.CreateUser(tx, user) / repo.UpdateUser(tx, user)
InsertUser(c) ==
    /\ \/ call[c].pc = "begun" /\ call[c].kind # "UpdateUser"
       \/ call[c].pc = "read"
    /\ \E ok \in BOOLEAN :
        IF ok
        THEN /\ db' = IF call[c].kind = "UpdateUser"
                      THEN UpdateUser(db, c, call[c].userID)
                      ELSE CreateUser(db, c, call[c].userID)
             /\ call' = [call EXCEPT ![c].pc = "user"]
        ELSE ReturnErr(c, db, IF call[c].kind = "UpdateUser"
                              THEN "failed to update user" ELSE "failed to create user")
    /\ UNCHANGED <<relayVars, loopVars, bucketVars, storeVars, windowVars, producerVars, tableVars, partitionVars, startVars>>

\* database.CreateUserCreatedEvent / CreateUserUpdatedEvent (json.Marshal may fail)
BuildEvent(c) ==
    /\ call[c].pc = "user"
    /\ \E ok \in BOOLEAN :
        IF ok
        THEN /\ call' = [call EXCEPT ![c].pc = "event"]
             /\ db' = db
        ELSE ReturnErr(c, db, "failed to create outbox event")
    /\ UNCHANGED <<relayVars, loopVars, bucketVars, storeVars, windowVars, producerVars, tableVars, partitionVars, startVars>>

\* repo.CreateOutboxEvent(tx, outboxEvent)
InsertOutboxEvent(c) ==
    /\ call[c].pc = "event"
    /\ \E ok \in BOOLEAN :
        IF ok
        THEN /\ db' = CreateOutboxEvent(db, c,
                        CreateUserEvent(c, call[c].userID, EventTypeOf(call[c].kind)))
             /\ call' = [call EXCEPT ![c].pc = "outbox"]
        ELSE ReturnErr(c, db, "failed to create outbox event")
    /\ UNCHANGED <<relayVars, loopVars, bucketVars, storeVars, windowVars, producerVars, tableVars, partitionVars, startVars>>

\* tx.Commit(): it commits; or it fails and the transaction is aborted; or the
\* server committed and the answer was lost, which the caller sees as a failure
CommitTx(c) ==
    /\ call[c].pc = "outbox"
    /\ \E outcome \in {"committed", "aborted", "lost"} :
        IF outcome = "committed"
        THEN /\ db' = Commit(db, c)
             /\ call' = [call EXCEPT ![c].pc = "done",
                            ![c].err = IF call[c].kind = "TestCrashScenario"
                                       THEN SimulatedCrash ELSE "nil"]
        ELSE ReturnErr(c, IF outcome = "lost" THEN Commit(db, c) ELSE db,
                       "failed to commit transaction")
    /\ UNCHANGED <<relayVars, loopVars, bucketVars, storeVars, windowVars, producerVars, tableVars, partitionVars, startVars>>

NextWriter ==
    \/ \E c \in Calls : BeginCall(c)
    \/ \E c \in Calls : GetExistingUser(c)
    \/ \E c \in Calls : InsertUser(c)
    \/ \E c \in Calls : BuildEvent(c)
    \/ \E c \in Calls : InsertOutboxEvent(c)
    \/ \E c \in Calls : CommitTx(c)

SpecWriter == Init /\ [][NextWriter]_vars

\* ------------------------------------------------------------ token bucket
\* Times are in ticks of 1/Scale second, token counts in units of 1/Scale
\* token; what the callers pass and get back is in tokens and seconds.

Min_PicksLarger(a, b) == IF a < b THEN b ELSE a

Min(a, b) == IF a < b THEN a ELSE b

Max(a, b) == IF a > b THEN a ELSE b

Lookup_IgnoresExpiry(b, t) == b

\* what a command run at time t sees at the key: a key past its expiry is gone
Lookup(b, t) == IF b.exists /\ t <= b.expires_at THEN b ELSE Absent

\* HMSET tokens, last_refill, capacity, refill_rate; EXPIRE ttl
Record(tokens, t, capacity, refill_rate, ttl) ==
    [exists |-> TRUE, tokens |-> tokens, last_refill |-> t, capacity |-> capacity,
     refill_rate |-> refill_rate, expires_at |-> t + ttl * Scale]

Refill_NoClamp(b, capacity, refill_rate, t) ==
    LET current_tokens == IF b.exists THEN b.tokens ELSE capacity * Scale
        last_refill == IF b.exists THEN b.last_refill ELSE t
        time_elapsed == Max(0, t - last_refill)
    IN current_tokens + time_elapsed * refill_rate

\* new_tokens before the take: the stored tokens (capacity when the key is
\* missing) plus the refill since last_refill (now when missing), clamped
Refill(b, capacity, refill_rate, t) ==
    LET current_tokens == IF b.exists THEN b.tokens ELSE capacity * Scale
        last_refill == IF b.exists THEN b.last_refill ELSE t
        time_elapsed == Max(0, t - last_refill)
    IN Min(capacity * Scale, current_tokens + time_elapsed * refill_rate)

\* a Lua number in a script's return table becomes a Redis integer reply: the
\* fraction is dropped (x counts 1/per-ths)
ToInteger(x, per) == x \div per

takeTokensScript_ChargesDenied(b0, requested, capacity, refill_rate, ttl, t, undef) ==
    LET new_tokens == Refill(Lookup(b0, t), capacity, refill_rate, t)
        enough == ~requested.nan /\ new_tokens >= requested.v
        left == IF enough THEN new_tokens - requested.v ELSE 0
    IN [bucket |-> Record(left, t, capacity, refill_rate, ttl),
        ret |-> <<IF enough THEN 1 ELSE 0, ToInteger(left, Scale),
                  IF enough THEN 0
                  ELSE IF requested.nan THEN undef
                  ELSE ToInteger(requested.v - new_tokens, Scale * refill_rate)>>]

takeTokensScript_StaleRead(b0, requested, capacity, refill_rate, ttl, t, undef) ==
    LET new_tokens == Refill(Absent, capacity, refill_rate, t)
        enough == ~requested.nan /\ new_tokens >= requested.v
        left == IF enough THEN new_tokens - requested.v ELSE new_tokens
    IN [bucket |-> Record(left, t, capacity, refill_rate, ttl),
        ret |-> <<IF enough THEN 1 ELSE 0, ToInteger(left, Scale),
                  IF enough THEN 0
                  ELSE IF requested.nan THEN undef
                  ELSE ToInteger(requested.v - new_tokens, Scale * refill_rate)>>]

\* undef: what the build yields for a NaN converted to an integer reply
takeTokensScript(b0, requested, capacity, refill_rate, ttl, t, undef) ==
    LET new_tokens == Refill(Lookup(b0, t), capacity, refill_rate, t)
        enough == ~requested.nan /\ new_tokens >= requested.v
        left == IF enough THEN new_tokens - requested.v ELSE new_tokens
    IN [bucket |-> Record(left, t, capacity, refill_rate, ttl),
        ret |-> <<IF enough THEN 1 ELSE 0, ToInteger(left, Scale),
                  IF enough THEN 0
                  ELSE IF requested.nan THEN undef
                  ELSE ToInteger(requested.v - new_tokens, Scale * refill_rate)>>]

\* TTL key: -2 for a missing key, else the seconds left, rounded
TTL(b, t) ==
    IF ~b.exists THEN 0 - 2
    ELSE (2 * (b.expires_at - t) + Scale) \div (2 * Scale)

getBucketStateScript(b0, capacity, refill_rate, ttl, t) ==
    LET b == Lookup(b0, t)
        last_refill == IF b.exists THEN b.last_refill ELSE t
        tokens_to_add == Max(0, t - last_refill) * refill_rate
        new_tokens == Refill(b, capacity, refill_rate, t)
        after == IF tokens_to_add > 0
                 THEN Record(new_tokens, t, capacity, refill_rate, ttl)
                 ELSE b
    IN [bucket |-> after,
        ret |-> <<ToInteger(new_tokens, Scale), ToInteger(t, Scale), TTL(after, t)>>]

resetBucketScript_OnlyRefills(b0, capacity, refill_rate, ttl, t) ==
    [bucket |-> Record(Refill(Lookup(b0, t), capacity, refill_rate, t), t,
                       capacity, refill_rate, ttl),
     ret |-> <<capacity, ToInteger(t, Scale)>>]

resetBucketScript_StaleRefillTime(b0, capacity, refill_rate, ttl, t) ==
    [bucket |-> [Record(capacity * Scale, t, capacity, refill_rate, ttl)
                    EXCEPT !.last_refill = 0],
     ret |-> <<capacity, 0>>]

resetBucketScript(b0, capacity, refill_rate, ttl, t) ==
    [bucket |-> Record(capacity * Scale, t, capacity, refill_rate, ttl),
     ret |-> <<capacity, ToInteger(t, Scale)>>]

\* RedisTokenBucket.TakeTokens
TakeTokens(b0, cfg, tokens, t, undef) ==
    IF ~tokens.nan /\ tokens.v <= 0
    THEN [bucket |-> b0,
          reply |-> [NoReply EXCEPT !.op = "take", !.tokens = tokens,
                                    !.err = "tokens must be positive"]]
    ELSE LET r == takeTokensScript(b0, tokens, cfg.Capacity, RefillRate, TTLSeconds,
                                   t, undef)
             allowed == r.ret[1] = 1
         IN [bucket |-> r.bucket,
             reply |-> [NoReply EXCEPT !.op = "take", !.tokens = tokens,
                            !.allowed = allowed, !.remaining = r.ret[2],
                            !.retry_after = IF ~allowed /\ r.ret[3] > 0
                                            THEN r.ret[3] ELSE 0]]

\* RedisTokenBucket.GetBucketState
GetBucketState(b0, cfg, t) ==
    LET r == getBucketStateScript(b0, cfg.Capacity, RefillRate, TTLSeconds, t)
    IN [bucket |-> r.bucket,
        reply |-> [NoReply EXCEPT !.op = "get-state", !.remaining = r.ret[1],
                                  !.ttl = r.ret[3]]]

\* RedisTokenBucket.ResetBucket
ResetBucket(b0, cfg, t) ==
    LET r == resetBucketScript(b0, cfg.Capacity, RefillRate, TTLSeconds, t)
    IN [bucket |-> r.bucket, reply |-> [NoReply EXCEPT !.op = "reset"]]

\* values of the tokens query parameter
TokenStrings == {"", "1", "2", "0", "-1", "abc", "NaN"}

\* strconv.ParseFloat(s, 64): it reads "NaN" as the float NaN
ParseFloat(str) ==
    CASE str = "1" -> [err |-> FALSE, f |-> Float(1)]
      [] str = "2" -> [err |-> FALSE, f |-> Float(2)]
      [] str = "0" -> [err |-> FALSE, f |-> Float(0)]
      [] str = "-1" -> [err |-> FALSE, f |-> Float(0 - 1)]
      [] str = "NaN" -> [err |-> FALSE, f |-> NaN]
      [] OTHER -> [err |-> TRUE, f |-> Float(0)]

\* Handler.ConsumeTokens: the bucket after the request and the answer
HandleConsume(b0, cfg, key, tokensStr, t, undef) ==
    LET parsed == ParseFloat(IF tokensStr = "" THEN "1" ELSE tokensStr)
        r == TakeTokens(b0, cfg, parsed.f, t, undef)
    IN IF key = ""
       THEN [bucket |-> b0, reply |-> [NoReply EXCEPT !.op = "consume",
                                        !.err = "missing_key", !.status = 400]]
       ELSE IF parsed.err \/ (~parsed.f.nan /\ parsed.f.v <= 0)
       THEN [bucket |-> b0, reply |-> [NoReply EXCEPT !.op = "consume",
                                        !.err = "invalid_tokens", !.status = 400]]
       ELSE IF r.reply.err # "nil"
       THEN [bucket |-> r.bucket, reply |-> [r.reply EXCEPT !.op = "consume",
                                        !.err = "bucket_error", !.status = 500]]
       ELSE [bucket |-> r.bucket,
             reply |-> [r.reply EXCEPT !.op = "consume",
                            !.status = IF r.reply.allowed THEN 200 ELSE 429]]

NoBurst == [valid |-> FALSE, calls |-> 0, allowed |-> 0]

\* history after a call that ran the take script for `tokens` at the clock
AfterTake(h, b0, tokens, allowed, t) ==
    LET fresh == ~Lookup(b0, t).exists
        one == IF allowed THEN 1 ELSE 0
    IN [h EXCEPT
          !.ops = @ + 1,
          !.grants[t] = IF allowed THEN @ + tokens.v ELSE @,
          !.reborn = @ \/ (b0.exists /\ fresh),
          !.burst = IF tokens # Float(1) THEN NoBurst
                    ELSE IF fresh THEN [valid |-> TRUE, calls |-> 1, allowed |-> one]
                    ELSE IF @.valid THEN [@ EXCEPT !.calls = @ + 1, !.allowed = @ + one]
                    ELSE NoBurst]

\* history after any other call
AfterOther(h, op) ==
    [h EXCEPT !.ops = @ + 1, !.burst = NoBurst,
              !.plain = @ /\ op # "reset"]

\* NewRedisTokenBucket: a limiter process starts with its Config; a later
\* start is a redeployment with another capacity
NewRedisTokenBucket ==
    /\ \E c \in Capacities :
        /\ c # config.Capacity
        /\ config' = [Capacity |-> c]
    /\ hist' = [hist EXCEPT !.plain = @ /\ config.Capacity = 0, !.burst = NoBurst]
    /\ UNCHANGED <<bucket, clock, reply>>
    /\ UNCHANGED <<relayVars, loopVars, writerVars, storeVars, windowVars, producerVars, tableVars, partitionVars, startVars>>

\* a caller runs TakeTokens(ctx, key, n)
CallTakeTokens ==
    /\ config.Capacity > 0
    /\ hist.ops < MaxOps
    /\ \E n \in (0 - 1)..(MaxCapacity + 1) :
        LET r == TakeTokens(bucket, config, Float(n), clock, 0)
        IN /\ bucket' = r.bucket
           /\ reply' = r.reply
           /\ hist' = IF r.reply.err = "nil"
                      THEN [AfterTake(hist, bucket, Float(n), r.reply.allowed, clock)
                                EXCEPT !.plain = @ /\ n <= config.Capacity]
                      ELSE AfterOther(hist, "take")
    /\ UNCHANGED <<clock, config>>
    /\ UNCHANGED <<relayVars, loopVars, writerVars, storeVars, windowVars, producerVars, tableVars, partitionVars, startVars>>

\* POST /api/consume?key=...&tokens=...
ConsumeTokens ==
    /\ config.Capacity > 0
    /\ hist.ops < MaxOps
    /\ \E key \in {"", "user"} : \E tokensStr \in TokenStrings :
       \E undef \in IF tokensStr = "NaN" THEN {0 - 1, 1} ELSE {0} :
        LET r == HandleConsume(bucket, config, key, tokensStr, clock, undef)
        IN /\ bucket' = r.bucket
           /\ reply' = [r.reply EXCEPT !.key = key, !.query = tokensStr]
           /\ hist' = IF r.reply.status \in {200, 429}
                      THEN AfterTake(hist, bucket, r.reply.tokens, r.reply.allowed, clock)
                      ELSE AfterOther(hist, "consume")
    /\ UNCHANGED <<clock, config>>
    /\ UNCHANGED <<relayVars, loopVars, writerVars, storeVars, windowVars, producerVars, tableVars, partitionVars, startVars>>

\* a caller runs GetBucketState(ctx, key)
CallGetBucketState ==
    /\ config.Capacity > 0
    /\ hist.ops < MaxOps
    /\ LET r == GetBucketState(bucket, config, clock)
       IN /\ bucket' = r.bucket
          /\ reply' = r.reply
    /\ hist' = AfterOther(hist, "get-state")
    /\ UNCHANGED <<clock, config>>
    /\ UNCHANGED <<relayVars, loopVars, writerVars, storeVars, windowVars, producerVars, tableVars, partitionVars, startVars>>

\* a caller runs ResetBucket(ctx, key)
CallResetBucket ==
    /\ config.Capacity > 0
    /\ hist.ops < MaxOps
    /\ LET r == ResetBucket(bucket, config, clock)
       IN /\ bucket' = r.bucket
          /\ reply' = r.reply
    /\ hist' = AfterOther(hist, "reset")
    /\ UNCHANGED <<clock, config>>
    /\ UNCHANGED <<relayVars, loopVars, writerVars, storeVars, windowVars, producerVars, tableVars, partitionVars, startVars>>

\* Redis deletes the key whose TTL has run out
KeyExpires ==
    /\ bucket.exists
    /\ clock > bucket.expires_at
    /\ bucket' = Absent
    /\ UNCHANGED <<clock, config, reply, hist>>
    /\ UNCHANGED <<relayVars, loopVars, writerVars, storeVars, windowVars, producerVars, tableVars, partitionVars, startVars>>

\* the store clock advances
TimePasses ==
    /\ clock < MaxClock
    /\ clock' = clock + 1
    /\ hist' = [hist EXCEPT !.burst = NoBurst]
    /\ UNCHANGED <<bucket, config, reply>>
    /\ UNCHANGED <<relayVars, loopVars, writerVars, storeVars, windowVars, producerVars, tableVars, partitionVars, startVars>>

\* the bucket engine, called directly
NextBucket ==
    \/ NewRedisTokenBucket
    \/ CallTakeTokens
    \/ CallGetBucketState
    \/ CallResetBucket
    \/ KeyExpires
    \/ TimePasses

SpecBucket == Init /\ [][NextBucket]_vars

\* the bucket engine behind the HTTP handler, next to direct takes
NextHandler ==
    \/ NewRedisTokenBucket
    \/ CallTakeTokens
    \/ ConsumeTokens
    \/ KeyExpires
    \/ TimePasses

SpecHandler == Init /\ [][NextHandler]_vars

\* ------------------------------------------------------------ middleware

\* how the store may fail a script call: not at all, before the script ran,
\* or after it ran (the answer was lost)
StoreOutcomes == {"ok", "unreached", "answer lost"}

RateLimitHandler_FailOpen(b0, cfg, t, outcome) ==
    LET r == TakeTokens(b0, cfg, Float(1), t, 0)
    IN IF outcome # "ok"
       THEN [bucket |-> IF outcome = "unreached" THEN b0 ELSE r.bucket,
             reply |-> [NoReply EXCEPT !.op = "request", !.tokens = Float(1),
                            !.err = "failed to take tokens", !.status = 200,
                            !.forwarded = TRUE]]
       ELSE IF ~r.reply.allowed
       THEN [bucket |-> r.bucket,
             reply |-> [r.reply EXCEPT !.op = "request", !.status = 429,
                            !.headers = {"X-RateLimit-Limit", "X-RateLimit-Remaining",
                                         "Retry-After"}]]
       ELSE [bucket |-> r.bucket,
             reply |-> [r.reply EXCEPT !.op = "request", !.status = 200,
                            !.headers = {"X-RateLimit-Limit", "X-RateLimit-Remaining"},
                            !.forwarded = TRUE]]

\* RateLimitMiddleware.Handler on one request: the bucket afterwards and the
\* answer (status 200 stands for whatever the next handler answers)
RateLimitHandler(b0, cfg, t, outcome) ==
    LET r == TakeTokens(b0, cfg, Float(1), t, 0)
    IN IF outcome # "ok"
       THEN [bucket |-> IF outcome = "unreached" THEN b0 ELSE r.bucket,
             reply |-> [NoReply EXCEPT !.op = "request", !.tokens = Float(1),
                            !.err = "failed to take tokens", !.status = 500]]
       ELSE IF ~r.reply.allowed
       THEN [bucket |-> r.bucket,
             reply |-> [r.reply EXCEPT !.op = "request", !.status = 429,
                            !.headers = {"X-RateLimit-Limit", "X-RateLimit-Remaining",
                                         "Retry-After"}]]
       ELSE [bucket |-> r.bucket,
             reply |-> [r.reply EXCEPT !.op = "request", !.status = 200,
                            !.headers = {"X-RateLimit-Limit", "X-RateLimit-Remaining"},
                            !.forwarded = TRUE]]

\* a request passes through the middleware
Handler ==
    /\ config.Capacity > 0
    /\ hist.ops < MaxOps
    /\ \E outcome \in StoreOutcomes :
        LET r == RateLimitHandler(bucket, config, clock, outcome)
        IN /\ bucket' = r.bucket
           /\ reply' = r.reply
           /\ hist' = IF r.reply.err = "nil"
                      THEN AfterTake(hist, bucket, Float(1), r.reply.allowed, clock)
                      ELSE AfterOther(hist, "request")
    /\ UNCHANGED <<clock, config>>
    /\ UNCHANGED <<relayVars, loopVars, writerVars, storeVars, windowVars, producerVars, tableVars, partitionVars, startVars>>

\* the bucket engine behind the rate-limit middleware
NextMiddleware ==
    \/ NewRedisTokenBucket
    \/ Handler
    \/ KeyExpires
    \/ TimePasses

SpecMiddleware == Init /\ [][NextMiddleware]_vars

\* ------------------------------------------------------------ bucket keys

\* the record a call on `key` leaves at the key's Redis name, and the call noted
AfterCallOn(key, r) ==
    /\ store' = [store EXCEPT ![keyName(key)] = r.bucket]
    /\ reply' = [r.reply EXCEPT !.key = key]
    /\ touched' = touched \cup {key}
    /\ hist' = [hist EXCEPT !.ops = @ + 1]
    /\ UNCHANGED <<bucket, clock, config>>
    /\ UNCHANGED <<relayVars, loopVars, writerVars, windowVars, producerVars, tableVars, partitionVars, startVars>>

\* a caller runs TakeTokens(ctx, key, n)
TakeTokensOn(key) ==
    /\ config.Capacity > 0
    /\ hist.ops < MaxKeyOps
    /\ \E n \in 1..(MaxCapacity + 1) :
         AfterCallOn(key, TakeTokens(store[keyName(key)], config, Float(n), clock, 0))

\* a caller runs GetBucketState(ctx, key)
GetBucketStateOn(key) ==
    /\ config.Capacity > 0
    /\ hist.ops < MaxKeyOps
    /\ AfterCallOn(key, GetBucketState(store[keyName(key)], config, clock))

\* a caller runs ResetBucket(ctx, key)
ResetBucketOn(key) ==
    /\ config.Capacity > 0
    /\ hist.ops < MaxKeyOps
    /\ AfterCallOn(key, ResetBucket(store[keyName(key)], config, clock))

\* Redis deletes a key whose TTL has run out
StoredKeyExpires ==
    /\ \E rk \in RedisKeys :
        /\ store[rk].exists
        /\ clock > store[rk].expires_at
        /\ store' = [store EXCEPT ![rk] = Absent]
    /\ UNCHANGED <<touched, bucketVars>>
    /\ UNCHANGED <<relayVars, loopVars, writerVars, windowVars, producerVars, tableVars, partitionVars, startVars>>

\* one limiter serving several keys
NextKeys ==
    \/ NewRedisTokenBucket
    \/ \E key \in Keys : TakeTokensOn(key)
    \/ \E key \in Keys : GetBucketStateOn(key)
    \/ \E key \in Keys : ResetBucketOn(key)
    \/ StoredKeyExpires
    \/ TimePasses

SpecKeys == Init /\ [][NextKeys]_vars

\* ------------------------------------------------------------ sliding window
\* Timestamps are in milliseconds; a member of the sorted set is the
\* timestamp of the call that added it, which is also its score.

\* what a command run at time t sees at the key: a key past its expiry is gone
LookupSet(z, t) == IF z.exists /\ t <= z.expires_at THEN z ELSE NoSet

ZREMRANGEBYSCORE_Exclusive(members, max) == {m \in members : m >= max}

\* ZREMRANGEBYSCORE key -inf max: the members left, those with score > max
ZREMRANGEBYSCORE(members, max) == {m \in members : m > max}

\* the sorted set holding `members`, with the expiry it had; no key when empty
SetOf(members, expires_at) ==
    IF members = {} THEN NoSet
    ELSE [exists |-> TRUE, members |-> members, expires_at |-> expires_at]

\* the least member: ZRANGE key 0 0
Oldest(members) == CHOOSE m \in members : \A o \in members : m <= o

\* slidingWindowScript run at store time t
slidingWindowScript(z0, window_start, window_end, max_requests, ttl, t) ==
    LET kept == ZREMRANGEBYSCORE(LookupSet(z0, t).members, window_start)
        count == Cardinality(kept)
        allowed == count < max_requests
        members == IF allowed THEN kept \cup {window_end} ELSE kept
        window_size == window_end - window_start
        retry_after == IF allowed \/ kept = {} THEN 0
                       ELSE Max(0, Oldest(kept) + window_size - window_end)
    IN [zset |-> SetOf(members, t + ttl),
        ret |-> <<IF allowed THEN 1 ELSE 0,
                  IF allowed THEN count + 1 ELSE count,
                  retry_after>>]

\* RedisSlidingWindow.IsAllowed by a caller whose time.Now() is `stamp`
IsAllowed(z0, stamp, t) ==
    LET windowStart == stamp - WindowSize
        r == slidingWindowScript(z0, windowStart, stamp, MaxRequests, WindowTTL, t)
        allowed == r.ret[1] = 1
    IN [zset |-> r.zset,
        reply |-> [op |-> "allow", allowed |-> allowed, current_count |-> r.ret[2],
                   window_start |-> windowStart, window_end |-> stamp,
                   retry_after |-> IF ~allowed /\ r.ret[3] > 0 THEN r.ret[3] ELSE 0]]

\* RedisSlidingWindow.GetWindowState by a caller whose time.Now() is `stamp`
GetWindowState(z0, stamp, t) ==
    LET windowStart == stamp - WindowSize
        z == LookupSet(z0, t)
        kept == ZREMRANGEBYSCORE(z.members, windowStart)
    IN [zset |-> SetOf(kept, z.expires_at),
        reply |-> [op |-> "state", allowed |-> Cardinality(kept) < MaxRequests,
                   current_count |-> Cardinality(kept),
                   window_start |-> windowStart, window_end |-> stamp,
                   retry_after |-> 0]]

\* RedisSlidingWindow.ClearWindow: DEL key
ClearWindow_KeepsSet(z0) == [zset |-> z0, reply |-> [NoWReply EXCEPT !.op = "clear"]]

ClearWindow(z0) == [zset |-> NoSet, reply |-> [NoWReply EXCEPT !.op = "clear"]]

\* the timestamps a caller may carry when the time is t
Stamps(t) == {stamp \in 0..t : stamp >= t - MaxSkew}

\* the run of allowed calls after a call that found `before` and kept `kept`
RunAfter(run, before, kept, allowed) ==
    LET base == IF kept = {} THEN NoRun
                ELSE IF kept # before THEN [valid |-> FALSE, n |-> 0]
                ELSE run
    IN IF allowed /\ base.valid THEN [base EXCEPT !.n = @ + 1] ELSE base

\* a caller runs IsAllowed(ctx, key)
CallIsAllowed ==
    /\ whist.ops < MaxWOps
    /\ \E stamp \in Stamps(wnow) :
        LET r == IsAllowed(zset, stamp, wnow)
            before == LookupSet(zset, wnow).members
            kept == ZREMRANGEBYSCORE(before, stamp - WindowSize)
        IN /\ zset' = r.zset
           /\ wreply' = r.reply
           /\ whist' = [whist EXCEPT
                            !.ops = @ + 1,
                            !.allowed[stamp] = IF r.reply.allowed THEN @ + 1 ELSE @,
                            !.run = RunAfter(@, before, kept, r.reply.allowed),
                            !.since_clear =
                                IF @.valid
                                THEN [@ EXCEPT !.calls = @ + 1,
                                               !.allowed = IF r.reply.allowed
                                                           THEN @ + 1 ELSE @]
                                ELSE @]
    /\ UNCHANGED wnow
    /\ UNCHANGED <<relayVars, loopVars, writerVars, bucketVars, storeVars, producerVars, tableVars, partitionVars, startVars>>

\* a caller runs GetWindowState(ctx, key)
CallGetWindowState ==
    /\ whist.ops < MaxWOps
    /\ \E stamp \in Stamps(wnow) :
        LET r == GetWindowState(zset, stamp, wnow)
            before == LookupSet(zset, wnow).members
        IN /\ zset' = r.zset
           /\ wreply' = r.reply
           /\ whist' = [whist EXCEPT
                            !.ops = @ + 1,
                            !.run = RunAfter(@, before, r.zset.members, FALSE)]
    /\ UNCHANGED wnow
    /\ UNCHANGED <<relayVars, loopVars, writerVars, bucketVars, storeVars, producerVars, tableVars, partitionVars, startVars>>

\* a caller runs ClearWindow(ctx, key)
CallClearWindow ==
    /\ whist.ops < MaxWOps
    /\ LET r == ClearWindow(zset)
       IN /\ zset' = r.zset
          /\ wreply' = r.reply
    /\ whist' = [whist EXCEPT !.ops = @ + 1, !.run = NoRun,
                    !.since_clear = [valid |-> TRUE, calls |-> 0, allowed |-> 0]]
    /\ UNCHANGED wnow
    /\ UNCHANGED <<relayVars, loopVars, writerVars, bucketVars, storeVars, producerVars, tableVars, partitionVars, startVars>>

\* Redis deletes the key whose TTL has run out
WindowKeyExpires ==
    /\ zset.exists
    /\ wnow > zset.expires_at
    /\ zset' = NoSet
    /\ UNCHANGED <<wnow, wreply, whist>>
    /\ UNCHANGED <<relayVars, loopVars, writerVars, bucketVars, storeVars, producerVars, tableVars, partitionVars, startVars>>

\* a millisecond passes
WindowTimePasses ==
    /\ wnow < MaxWClock
    /\ wnow' = wnow + 1
    /\ UNCHANGED <<zset, wreply, whist>>
    /\ UNCHANGED <<relayVars, loopVars, writerVars, bucketVars, storeVars, producerVars, tableVars, partitionVars, startVars>>

NextWindow ==
    \/ CallIsAllowed
    \/ CallGetWindowState
    \/ CallClearWindow
    \/ WindowKeyExpires
    \/ WindowTimePasses

SpecWindow == Init /\ [][NextWindow]_vars

\* --------------------------------------------------------------- producer

\* a *string field: nil, or a string
NilString == [nil |-> TRUE, s |-> ""]

String(str) == [nil |-> FALSE, s |-> str]

\* a sarama Encoder field: unset, or the key bytes
NoKey == [set |-> FALSE, s |-> ""]

StringEncoder(str) == [set |-> TRUE, s |-> str]

\* the events handed to the producer: partition key nil, empty or given
PartitionKeys == {NilString, String(""), String("tenant-1")}

AggregateIDs == {"user-1", "user-2"}

OutboxEvents == [AggregateID : AggregateIDs, PartitionKey : PartitionKeys]

\* the ProducerMessage that PublishEvent builds for an event
ProducerMessage(event) ==
    [aggregate_id |-> event.AggregateID,
     partition_key |-> event.PartitionKey,
     Key |-> IF ~event.PartitionKey.nil /\ event.PartitionKey.s # ""
             THEN StringEncoder(event.PartitionKey.s)
             ELSE NoKey]

\* Producer.PublishEvent: build the message, send it synchronously
PublishEvent ==
    /\ Len(messages) < MaxMessages
    /\ \E event \in OutboxEvents, sent \in BOOLEAN :
        messages' = IF sent THEN Append(messages, ProducerMessage(event))
                    ELSE messages
    /\ UNCHANGED <<relayVars, loopVars, writerVars, bucketVars, storeVars, windowVars, tableVars, partitionVars, startVars>>

NextProducer == PublishEvent

SpecProducer == Init /\ [][NextProducer]_vars

\* ------------------------------------------------- relay on several rows

CreatedAts == 0..MaxCreatedAt

RetryBudgets == 0..MaxMaxRetries

Pending_AlsoFailed(tbl) ==
    {i \in 1..Len(tbl) : tbl[i].status \in {StatusNew, StatusFailed}}

\* the ids of the rows with status NEW
Pending(tbl) == {i \in 1..Len(tbl) : tbl[i].status = StatusNew}

OrderedSelections_Unordered(tbl, limit) ==
    LET n == IF Cardinality(Pending(tbl)) < limit THEN Cardinality(Pending(tbl)) ELSE limit
    IN {[k \in 1..n |-> Snapshot(tbl, ids[k])] :
            ids \in {q \in [1..n -> Pending(tbl)] :
                \A i, j \in 1..n : i < j => q[i] # q[j]}}

\* what SELECT ... WHERE status = NEW ORDER BY created_at ASC LIMIT limit may
\* return: the first rows by created_at, rows of equal created_at in any order
OrderedSelections(tbl, limit) ==
    LET n == IF Cardinality(Pending(tbl)) < limit THEN Cardinality(Pending(tbl)) ELSE limit
    IN {[k \in 1..n |-> Snapshot(tbl, ids[k])] :
            ids \in {q \in [1..n -> Pending(tbl)] :
                /\ \A i, j \in 1..n : i < j =>
                        (q[i] # q[j] /\ tbl[q[i]].created_at <= tbl[q[j]].created_at)
                /\ \A r \in Pending(tbl) \ {q[i] : i \in 1..n} :
                        \A i \in 1..n : tbl[q[i]].created_at <= tbl[r].created_at}}

AfterHead_DropsBatch(w) == "ticker"

\* after the event at the head of the batch: next event, or back to the ticker
AfterHead(w) == IF Len(tbatch[w]) > 1 THEN "events" ELSE "ticker"

Logged(w, op, id) == [tlog EXCEPT ![w] = Append(@, [op |-> op, ID |-> id])]

\* CreateOutboxEvent commits a row
InsertEvent ==
    /\ Len(table) < NumRows
    /\ \E c \in CreatedAts, m \in RetryBudgets :
        table' = Append(table, [created_at |-> c] @@ NewRow(m))
    /\ UNCHANGED <<tnow, tpc, tbatch, tlog>>
    /\ UNCHANGED <<relayVars, loopVars, writerVars, bucketVars, storeVars, windowVars, producerVars, partitionVars, startVars>>

\* Relay.Start up to the first wait on the ticker: the startup recovery pass
Recover(w) ==
    /\ tpc[w] = "init"
    /\ table' = ResetStaleProcessingEvents(table, tnow - ProcessingTimeout)
    /\ tpc' = [tpc EXCEPT ![w] = "ticker"]
    /\ UNCHANGED <<tnow, tbatch, tlog>>
    /\ UNCHANGED <<relayVars, loopVars, writerVars, bucketVars, storeVars, windowVars, producerVars, partitionVars, startVars>>

\* a tick of the polling loop: processOutboxEvents selects the batch
Select(w) ==
    /\ tpc[w] = "ticker"
    /\ \E events \in OrderedSelections(table, BatchLimit) :
        /\ tbatch' = [tbatch EXCEPT ![w] = events]
        /\ tpc' = [tpc EXCEPT ![w] = IF Len(events) = 0 THEN "ticker" ELSE "events"]
    /\ tlog' = [tlog EXCEPT ![w] = <<>>]
    /\ UNCHANGED <<table, tnow>>
    /\ UNCHANGED <<relayVars, loopVars, writerVars, bucketVars, storeVars, windowVars, producerVars, partitionVars, startVars>>

\* processEvent up to the claim: the retry-budget check on the selected event,
\* then the claim transaction (MarkEventAsProcessing and commit)
Claim(w) ==
    /\ tpc[w] = "events"
    /\ LET event == Head(tbatch[w])
           res == MarkEventAsProcessing(table, event.ID, tnow)
       IN IF event.RetryCount >= event.MaxRetries
          THEN /\ table' = MarkEventAsFailed(table, event.ID, ExceededMsg, tnow)
               /\ tpc' = [tpc EXCEPT ![w] = AfterHead(w)]
               /\ tbatch' = [tbatch EXCEPT ![w] = Tail(@)]
               /\ tlog' = Logged(w, "exceeded", event.ID)
          ELSE /\ table' = res.tbl
               /\ IF res.rowsAffected = 0
                  THEN /\ tpc' = [tpc EXCEPT ![w] = AfterHead(w)]
                       /\ tbatch' = [tbatch EXCEPT ![w] = Tail(@)]
                       /\ tlog' = Logged(w, "refused", event.ID)
                  ELSE /\ tpc' = [tpc EXCEPT ![w] = "publish"]
                       /\ UNCHANGED tbatch
                       /\ tlog' = Logged(w, "claimed", event.ID)
    /\ UNCHANGED tnow
    /\ UNCHANGED <<relayVars, loopVars, writerVars, bucketVars, storeVars, windowVars, producerVars, partitionVars, startVars>>

\* processEvent, producer.PublishEvent: the log accepts the message or the call fails
Send(w) ==
    /\ tpc[w] = "publish"
    /\ \E ok \in BOOLEAN :
        IF ok
        THEN /\ tlog' = Logged(w, "published", Head(tbatch[w]).ID)
             /\ tpc' = [tpc EXCEPT ![w] = "markSent"]
        ELSE /\ UNCHANGED tlog
             /\ tpc' = [tpc EXCEPT ![w] = "markFailed"]
    /\ UNCHANGED <<table, tnow, tbatch>>
    /\ UNCHANGED <<relayVars, loopVars, writerVars, bucketVars, storeVars, windowVars, producerVars, partitionVars, startVars>>

\* markEventAsSent
CommitSent(w) ==
    /\ tpc[w] = "markSent"
    /\ table' = MarkEventAsSent(table, Head(tbatch[w]).ID, tnow)
    /\ tpc' = [tpc EXCEPT ![w] = AfterHead(w)]
    /\ tbatch' = [tbatch EXCEPT ![w] = Tail(@)]
    /\ UNCHANGED <<tnow, tlog>>
    /\ UNCHANGED <<relayVars, loopVars, writerVars, bucketVars, storeVars, windowVars, producerVars, partitionVars, startVars>>

\* markEventAsFailed after a failed publish
CommitFailed(w) ==
    /\ tpc[w] = "markFailed"
    /\ table' = MarkEventAsFailed(table, Head(tbatch[w]).ID, PublishErr, tnow)
    /\ tpc' = [tpc EXCEPT ![w] = AfterHead(w)]
    /\ tbatch' = [tbatch EXCEPT ![w] = Tail(@)]
    /\ tlog' = Logged(w, "failed", Head(tbatch[w]).ID)
    /\ UNCHANGED tnow
    /\ UNCHANGED <<relayVars, loopVars, writerVars, bucketVars, storeVars, windowVars, producerVars, partitionVars, startVars>>

\* time passes
Advance ==
    /\ tnow < MaxTime
    /\ tnow' = tnow + 1
    /\ UNCHANGED <<table, tpc, tbatch, tlog>>
    /\ UNCHANGED <<relayVars, loopVars, writerVars, bucketVars, storeVars, windowVars, producerVars, partitionVars, startVars>>

NextTable ==
    \/ InsertEvent
    \/ \E w \in Workers : Recover(w)
    \/ \E w \in Workers : Select(w)
    \/ \E w \in Workers : Claim(w)
    \/ \E w \in Workers : Send(w)
    \/ \E w \in Workers : CommitSent(w)
    \/ \E w \in Workers : CommitFailed(w)
    \/ Advance

SpecTable == Init /\ [][NextTable]_vars

\* ---------------------------------------------------- partition strategies

\* the partition counts asked for: negative, zero, positive
PartitionCounts == (-1)..MaxPartitions

\* Go's a % n on int32, n > 0: the remainder has the sign of a
Rem(a, n) == IF a >= 0 THEN a % n ELSE IF a % n = 0 THEN 0 ELSE (a % n) - n

\* Go's -a on int32: the negation of the least value wraps to itself
Neg32(a) == IF a = MinInt32 THEN MinInt32 ELSE -a

\* Go's a + k on int32 for 0 <= k <= MaxInt32, wrapping
Add32(a, k) ==
    IF a <= 0 THEN a + k
    ELSE IF k <= MaxInt32 - a THEN a + k
    ELSE MinInt32 + (k - (MaxInt32 - a) - 1)

\* int32(crc32.ChecksumIEEE([]byte(key))) of the keys of the model
ChecksumIEEE(key) ==
    CASE key = "user-1" -> 2116437524        \* 0x7e264614
      [] key = "user-2" -> -416344146        \* 0xe72f17ae
      [] key = "tenant-1" -> -68220417       \* 0xfbef09ff

\* the first four bytes of sha256(key) put together as an int32
Sum256(key) ==
    CASE key = "user-1" -> -960329244        \* c6 c2 89 e4
      [] key = "user-2" -> -651466289        \* d9 2b 69 cf

HashGetPartition(event, numPartitions) ==
    IF numPartitions <= 0 THEN 0
    ELSE LET key == IF ~event.PartitionKey.nil /\ event.PartitionKey.s # ""
                    THEN event.PartitionKey.s
                    ELSE event.AggregateID
         IN Rem(ChecksumIEEE(key), numPartitions)

UserIDGetPartition(event, numPartitions) ==
    IF numPartitions <= 0 THEN 0
    ELSE LET hashInt == Sum256(event.AggregateID)
         IN Rem(IF hashInt < 0 THEN Neg32(hashInt) ELSE hashInt, numPartitions)

\* RoundRobinPartitionStrategy.GetPartition: the index and the counter afterwards
RoundRobinGetPartition(c, numPartitions) ==
    IF numPartitions <= 0 THEN [index |-> 0, counter |-> c]
    ELSE [index |-> Rem(c, numPartitions), counter |-> Add32(c, 1)]

HashPartition ==
    /\ pcalls < MaxPartitionCalls
    /\ pcalls' = pcalls + 1
    /\ \E event \in OutboxEvents, n \in PartitionCounts :
        partition' = [strategy |-> "hash",
                      key |-> IF ~event.PartitionKey.nil /\ event.PartitionKey.s # ""
                              THEN event.PartitionKey.s ELSE event.AggregateID,
                      numPartitions |-> n, index |-> HashGetPartition(event, n)]
    /\ UNCHANGED counter
    /\ UNCHANGED <<relayVars, loopVars, writerVars, bucketVars, storeVars, windowVars, producerVars, tableVars, startVars>>

UserIDPartition ==
    /\ pcalls < MaxPartitionCalls
    /\ pcalls' = pcalls + 1
    /\ \E event \in OutboxEvents, n \in PartitionCounts :
        partition' = [strategy |-> "user id", key |-> event.AggregateID,
                      numPartitions |-> n, index |-> UserIDGetPartition(event, n)]
    /\ UNCHANGED counter
    /\ UNCHANGED <<relayVars, loopVars, writerVars, bucketVars, storeVars, windowVars, producerVars, tableVars, startVars>>

RoundRobinPartition ==
    /\ pcalls < MaxPartitionCalls
    /\ pcalls' = pcalls + 1
    /\ \E n \in PartitionCounts :
        LET r == RoundRobinGetPartition(counter, n)
        IN /\ partition' = [strategy |-> "round robin", key |-> "",
                            numPartitions |-> n, index |-> r.index]
           /\ counter' = r.counter
    /\ UNCHANGED <<relayVars, loopVars, writerVars, bucketVars, storeVars, windowVars, producerVars, tableVars, startVars>>

\* MaxInt32 round-robin calls with a positive count, their answers not looked at
RoundRobinManyCalls ==
    /\ pcalls < MaxPartitionCalls
    /\ pcalls' = pcalls + 1
    /\ counter' = Add32(counter, MaxInt32)
    /\ UNCHANGED partition
    /\ UNCHANGED <<relayVars, loopVars, writerVars, bucketVars, storeVars, windowVars, producerVars, tableVars, startVars>>

NextPartition ==
    \/ HashPartition
    \/ UserIDPartition
    \/ RoundRobinPartition
    \/ RoundRobinManyCalls

SpecPartition == Init /\ [][NextPartition]_vars

\* ------------------------------------------------------ Relay.Start, Stop

\* Start reads r.running: already running, return the error
StartCheck(g) ==
    /\ cpc[g] = "idle"
    /\ cpc' = [cpc EXCEPT ![g] = IF running THEN "refused" ELSE "checked"]
    /\ cctx' = [cctx EXCEPT ![g] = FALSE]
    /\ UNCHANGED <<running, stops>>
    /\ UNCHANGED <<relayVars, loopVars, writerVars, bucketVars, storeVars, windowVars, producerVars, tableVars, partitionVars>>

\* Start sets r.running and enters the polling loop
StartLoop(g) ==
    /\ cpc[g] = "checked"
    /\ running' = TRUE
    /\ cpc' = [cpc EXCEPT ![g] = "loop"]
    /\ UNCHANGED <<cctx, stops>>
    /\ UNCHANGED <<relayVars, loopVars, writerVars, bucketVars, storeVars, windowVars, producerVars, tableVars, partitionVars>>

\* the caller has the error 'relay service is already running'
StartRefused(g) ==
    /\ cpc[g] = "refused"
    /\ cpc' = [cpc EXCEPT ![g] = "idle"]
    /\ UNCHANGED <<running, cctx, stops>>
    /\ UNCHANGED <<relayVars, loopVars, writerVars, bucketVars, storeVars, windowVars, producerVars, tableVars, partitionVars>>

\* Relay.Stop: clears the flag, the loop goes on until its context is done
Stop ==
    /\ stops < MaxStops
    /\ stops' = stops + 1
    /\ running' = FALSE
    /\ UNCHANGED <<cpc, cctx>>
    /\ UNCHANGED <<relayVars, loopVars, writerVars, bucketVars, storeVars, windowVars, producerVars, tableVars, partitionVars>>

\* the context of a Start call is cancelled
CancelStart(g) ==
    /\ cpc[g] = "loop"
    /\ ~cctx[g]
    /\ cctx' = [cctx EXCEPT ![g] = TRUE]
    /\ UNCHANGED <<running, cpc, stops>>
    /\ UNCHANGED <<relayVars, loopVars, writerVars, bucketVars, storeVars, windowVars, producerVars, tableVars, partitionVars>>

\* the loop takes <-ctx.Done(): running = false, Start returns ctx.Err()
LoopExit(g) ==
    /\ cpc[g] = "loop"
    /\ cctx[g]
    /\ running' = FALSE
    /\ cpc' = [cpc EXCEPT ![g] = "idle"]
    /\ UNCHANGED <<cctx, stops>>
    /\ UNCHANGED <<relayVars, loopVars, writerVars, bucketVars, storeVars, windowVars, producerVars, tableVars, partitionVars>>

NextStart ==
    \/ \E g \in Callers : StartCheck(g)
    \/ \E g \in Callers : StartLoop(g)
    \/ \E g \in Callers : StartRefused(g)
    \/ \E g \in Callers : CancelStart(g)
    \/ \E g \in Callers : LoopExit(g)
    \/ Stop

SpecStart == Init /\ [][NextStart]_vars

\* ------------------------------------------------------------ properties

\* the event a process holds between its claim and its SENT/FAILED mark
Holds(w, e) ==
    /\ pc[w] \in {"publish", "markSent", "markFailed"}
    /\ Head(batch[w]).ID = e

Stale(e) ==
    /\ outbox[e].status = StatusProcessing
    /\ outbox[e].processed_at < now - ProcessingTimeout

\* C1: a row that is NEW is claimed by exactly one MarkEventAsProcessing: a
\* claim of a NEW row makes it PROCESSING, a claim attempted on a row that is
\* not NEW affects zero rows, is an error for the process (it does not go on
\* to publish) and leaves the table unchanged; so each time a row is NEW it is
\* claimed at most once.
C1_ExclusiveClaim ==
    [][\A w \in Workers : ProcessEvent(w) =>
        LET id == Head(batch[w]).ID
        IN /\ IF outbox[id].status = StatusNew
              THEN /\ outbox'[id].status = StatusProcessing
                   /\ pc'[w] = "publish"
              ELSE /\ outbox' = outbox
                   /\ refused'[id]
                   /\ pc'[w] # "publish"
           /\ claims'[id] <= resets'[id] + 1]_vars

\* one process holds the claim of a row, the other's claim of it was refused
C1_Witness ==
    \E w1, w2 \in Workers : \E e \in Events :
        /\ w1 # w2
        /\ Holds(w1, e)
        /\ outbox[e].status = StatusProcessing
        /\ pc[w2] = "ticker"
        /\ refused[e]
        /\ claims[e] = 1
        /\ resets[e] = 0

\* C2: when recovery resets a row whose claimant is alive (no process was
\* killed), the event is still published to the log at most once.
C2_AtMostOncePublish ==
    crashes = 0 => \A e \in Events : published[e] <= 1

\* C3: when only one relay process ever runs and it is killed between the
\* claim and the SENT mark, the event that ends SENT after the restart has
\* been published exactly once over the whole run.
C3_ExactlyOnceAfterCrash ==
    Cardinality({w \in Workers : pc[w] # "init"}) <= 1 =>
        \A e \in Events : outbox[e].status = StatusSent => published[e] = 1

\* C4: a row's status changes only along NEW -> PROCESSING, PROCESSING -> SENT,
\* PROCESSING -> FAILED and the recovery edges back to NEW.
C4_StatusEdges ==
    [][\A e \in Events : outbox'[e].status # outbox[e].status =>
        <<outbox[e].status, outbox'[e].status>> \in
            {<<StatusNew, StatusProcessing>>, <<StatusProcessing, StatusSent>>,
             <<StatusProcessing, StatusFailed>>, <<StatusProcessing, StatusNew>>,
             <<StatusFailed, StatusNew>>}]_vars

\* C5: a SENT row is terminal: its status, retry_count and error_message never
\* change again.
C5_SentTerminal ==
    [][\A e \in Events : outbox[e].status = StatusSent =>
        /\ outbox'[e].status = StatusSent
        /\ outbox'[e].retry_count = outbox[e].retry_count
        /\ outbox'[e].error_message = outbox[e].error_message]_vars

\* C6: while the publisher has never accepted a message, a FAILED row whose
\* retry_count is below max_retries is retryable: the next batch select
\* returns it.
C6_FailedIsReselected ==
    (\A e \in Events : published[e] = 0) =>
        \A e \in Events :
            (outbox[e].status = StatusFailed
             /\ outbox[e].retry_count < outbox[e].max_retries) =>
                \E k \in DOMAIN GetPendingOutboxEvents(outbox, NumEvents) :
                    GetPendingOutboxEvents(outbox, NumEvents)[k].ID = e

\* C7: retry_count changes only by one, on the PROCESSING -> FAILED edge.
C7_RetryCountOnlyOnFailEdge ==
    [][\A e \in Events : outbox'[e].retry_count # outbox[e].retry_count =>
        /\ outbox[e].status = StatusProcessing
        /\ outbox'[e].status = StatusFailed
        /\ outbox'[e].retry_count = outbox[e].retry_count + 1]_vars

\* C8: every SENT row has had a successful publish, and no process is about
\* to publish (or has just published) a row whose status is NEW.
C8_PublishOnlyUnderClaim ==
    /\ \A e \in Events : outbox[e].status = StatusSent => published[e] >= 1
    /\ \A w \in Workers : \A e \in Events :
        Holds(w, e) => outbox[e].status # StatusNew

UsersOf(c) == {r \in db.users : r.tx = c}

EventsOf(c) == {r \in db.events : r.tx = c}

PendingIDs(tbl) ==
    {GetPendingOutboxEvents(tbl, NumEvents)[k].ID :
        k \in DOMAIN GetPendingOutboxEvents(tbl, NumEvents)}

\* C12: with a publisher that succeeds and no relay process killed, the pass
\* of a relay over a NEW row with retry budget left claims it, hands exactly
\* one message of that event to the log and marks the row SENT (one message in
\* all when a single relay runs); every such row is eventually SENT once a
\* relay runs; a SENT row stays SENT and is not returned by
\* GetPendingOutboxEvents.
C12_DeliveredBySuccessfulTick ==
    /\ [][\A w \in Workers :
            /\ (ProcessEvent(w) /\ outbox[Head(batch[w]).ID].status = StatusNew
                /\ Head(batch[w]).RetryCount < Head(batch[w]).MaxRetries)
                    => /\ outbox'[Head(batch[w]).ID].status = StatusProcessing
                       /\ pc'[w] = "publish"
            /\ PublishSucceeds(w) =>
                    published' = [published EXCEPT ![Head(batch[w]).ID] = @ + 1]
            /\ MarkSent(w) => outbox'[Head(batch[w]).ID].status = StatusSent]_vars
    /\ [][\A e \in Events : outbox[e].status = StatusSent =>
            outbox'[e].status = StatusSent]_vars
    /\ [](\A e \in Events :
            /\ published[e] <= claims[e]
            /\ outbox[e].status = StatusSent => e \notin PendingIDs(outbox)
            /\ (outbox[e].status = StatusSent
                /\ Cardinality({w \in Workers : pc[w] # "init"}) <= 1)
                    => published[e] = 1)
    /\ \A e \in Events :
        (/\ outbox[e].status = StatusNew
         /\ outbox[e].retry_count < outbox[e].max_retries
         /\ \E w \in Workers : Running(w))
            ~> (outbox[e].status = StatusSent)

\* a single relay has claimed the row once, published one message and marked
\* it SENT; the next batch select does not return it
C12_Witness ==
    \E e \in Events :
        /\ outbox[e].status = StatusSent
        /\ claims[e] = 1
        /\ published[e] = 1
        /\ Cardinality({w \in Workers : pc[w] # "init"}) = 1
        /\ e \notin PendingIDs(outbox)

\* C13: no row is left claimed by an interrupted relay operation: every row
\* in PROCESSING has a relay process that holds its claim and is still working
\* on it.
C13_NoOrphanedClaim ==
    \A e \in Events :
        outbox[e].status = StatusProcessing => \E w \in Workers : Holds(w, e)

C15_TokensWithinCapacity ==
    /\ [](bucket.exists =>
            (0 <= bucket.tokens /\ bucket.tokens <= bucket.capacity * Scale))
    /\ [][(bucket' # bucket /\ bucket'.exists) =>
            /\ bucket'.capacity = config.Capacity
            /\ 0 <= bucket'.tokens
            /\ bucket'.tokens <= config.Capacity * Scale]_vars
    /\ [][bucket' # bucket =>
            \/ bucket'.exists /\ bucket'.last_refill = clock
            \/ bucket' = Absent /\ clock > bucket.expires_at]_vars

\* a record written under a larger capacity was read by a take configured
\* with a smaller one: the take was denied and stored the clamped count
C15_Witness ==
    /\ ~hist.plain
    /\ hist.ops >= 2
    /\ config.Capacity < MaxCapacity
    /\ bucket.exists
    /\ bucket.capacity = config.Capacity
    /\ bucket.tokens = config.Capacity * Scale
    /\ reply.op = "take" /\ ~reply.allowed /\ reply.err = "nil"

\* C16: a take of n > 0 tokens computes pool = min(capacity, tokens + elapsed *
\* refill_rate), from (capacity, now) when the key has no record; it returns
\* allowed with remaining = pool - n and retry-after 0 exactly when pool >= n,
\* else denied with remaining = pool and retry-after = (n - pool) /
\* refill_rate; either way it writes the tokens left, last_refill = now, the
\* capacity and the refill rate, and sets the TTL.
C16_TakeResult ==
    [][(CallTakeTokens /\ reply'.err = "nil") =>
        LET n == reply'.tokens.v
            pool == Refill(Lookup(bucket, clock), config.Capacity, RefillRate, clock)
        IN /\ reply'.allowed <=> pool >= n
           /\ reply'.allowed =>
                (reply'.remaining * Scale = pool - n /\ reply'.retry_after = 0)
           /\ ~reply'.allowed =>
                /\ reply'.remaining * Scale = pool
                /\ reply'.retry_after * Scale * RefillRate = n - pool
           /\ bucket' = Record(IF pool >= n THEN pool - n ELSE pool, clock,
                               config.Capacity, RefillRate, TTLSeconds)]_vars

RECURSIVE GrantedIn(_, _, _)
\* the tokens (in units) allowed to takes made at the ticks a..b
GrantedIn(g, a, b) == IF a > b THEN 0 ELSE g[a] + GrantedIn(g, a + 1, b)

\* over every interval of T seconds at most capacity + refill_rate * T tokens
RateBound(capacity) ==
    \A a, b \in 0..MaxClock :
        a <= b => GrantedIn(hist.grants, a, b) <= capacity * Scale + RefillRate * (b - a)

\* C17 as stated: over any sequence of takes of n <= capacity under one
\* configuration, whatever the idle gaps between them (gaps longer than the
\* TTL included), the tokens allowed in any interval of length T are at most
\* capacity + refill_rate * T.
C17_RateBound ==
    (hist.plain /\ config.Capacity > 0) => RateBound(config.Capacity)

\* C17 as amended: the bound holds when the TTL is long enough for an idle
\* bucket to refill completely before its record expires, capacity <=
\* refill_rate * TTL.
C17_RateBoundWithinTTL ==
    (hist.plain /\ config.Capacity > 0
     /\ config.Capacity <= RefillRate * TTLSeconds) => RateBound(config.Capacity)

\* with capacity <= refill_rate * TTL a full burst was allowed, the record
\* expired, and the bucket born again allowed a second full burst
C17_Witness ==
    /\ hist.plain
    /\ hist.reborn
    /\ config.Capacity > 0
    /\ config.Capacity <= RefillRate * TTLSeconds
    /\ GrantedIn(hist.grants, 0, MaxClock) = 2 * config.Capacity * Scale

\* C18: in a burst of N take(k, 1) calls against a fresh bucket of capacity
\* C with no refill between them (the store runs each take script as one
\* step, in some order), min(N, C) calls are allowed: with N > C exactly C
\* are allowed and N - C denied.
C18_BurstExactlyCapacity ==
    hist.burst.valid =>
        /\ hist.burst.allowed = Min(hist.burst.calls, config.Capacity)
        /\ hist.burst.calls > config.Capacity =>
                /\ hist.burst.allowed = config.Capacity
                /\ bucket.exists /\ bucket.tokens = 0

\* a burst of more calls than the capacity has been served: C allowed, the
\* others denied
C18_Witness ==
    /\ hist.burst.valid
    /\ hist.burst.calls = MaxOps
    /\ hist.burst.calls > config.Capacity
    /\ hist.burst.allowed = config.Capacity
    /\ ~reply.allowed /\ reply.op = "take"

\* tokens parameters that are zero, negative or not a number
InvalidTokens == {"0", "-1", "abc", "NaN"}

\* C19: a take of n <= 0 tokens fails with an error and leaves the record of
\* the key as it was; a consume request whose tokens parameter is zero,
\* negative or not a number, or whose key is missing, is answered 400 and
\* leaves the record as it was (no take was run).
C19_InvalidRejected ==
    [][/\ (CallTakeTokens /\ reply'.op = "take"
           /\ ~reply'.tokens.nan /\ reply'.tokens.v <= 0) =>
            (reply'.err = "tokens must be positive" /\ bucket' = bucket)
       /\ (ConsumeTokens /\ reply'.op = "consume"
           /\ (reply'.key = "" \/ reply'.query \in InvalidTokens)) =>
            (reply'.status = 400 /\ bucket' = bucket)]_vars

\* C20: a key with no record is full at the time of the call: a take of
\* capacity tokens on it is allowed and leaves 0, and a take that follows at
\* the same instant is denied; every script gives on a key whose record has
\* expired exactly what it gives on a key that never had one.
C20_FreshKeyIsFull ==
    /\ [][(CallTakeTokens /\ reply'.err = "nil") =>
            /\ (~Lookup(bucket, clock).exists
                /\ reply'.tokens = Float(config.Capacity)) =>
                    /\ reply'.allowed /\ reply'.remaining = 0
                    /\ bucket'.tokens = 0 /\ bucket'.last_refill = clock
            /\ (Lookup(bucket, clock).exists /\ bucket.tokens = 0
                /\ bucket.last_refill = clock) =>
                    (~reply'.allowed /\ bucket'.tokens = 0)]_vars
    /\ []((bucket.exists /\ clock > bucket.expires_at) =>
            \A c \in Capacities :
                /\ \A n \in 1..(MaxCapacity + 1) :
                    takeTokensScript(bucket, Float(n), c, RefillRate, TTLSeconds, clock, 0)
                        = takeTokensScript(Absent, Float(n), c, RefillRate, TTLSeconds, clock, 0)
                /\ getBucketStateScript(bucket, c, RefillRate, TTLSeconds, clock)
                        = getBucketStateScript(Absent, c, RefillRate, TTLSeconds, clock)
                /\ resetBucketScript(bucket, c, RefillRate, TTLSeconds, clock)
                        = resetBucketScript(Absent, c, RefillRate, TTLSeconds, clock))

\* a bucket drained by a take of capacity expired before it could refill; a
\* take of capacity on the expired key was allowed and left 0
C20_Witness ==
    /\ hist.plain /\ hist.reborn
    /\ clock = MaxClock
    /\ config.Capacity = MaxCapacity
    /\ hist.grants[0] = MaxCapacity * Scale
    /\ hist.grants[MaxClock] = MaxCapacity * Scale
    /\ reply.op = "take" /\ reply.allowed /\ reply.remaining = 0
    /\ reply.tokens = Float(MaxCapacity)
    /\ bucket.tokens = 0 /\ bucket.last_refill = clock

\* C21: a take of n > capacity tokens is denied whatever the record holds, and
\* a denied take consumes nothing: it stores the refilled pool, the full
\* capacity on a key with no record; the take of capacity tokens that follows
\* a denied take which left the pool full is allowed and leaves 0.
C21_OverCapacityDenied ==
    /\ [][(CallTakeTokens /\ reply'.err = "nil"
           /\ reply'.tokens.v > config.Capacity * Scale) =>
            LET pool == Refill(Lookup(bucket, clock), config.Capacity, RefillRate, clock)
            IN /\ ~reply'.allowed
               /\ bucket'.exists /\ bucket'.tokens = pool
               /\ ~Lookup(bucket, clock).exists =>
                    bucket'.tokens = config.Capacity * Scale]_vars
    /\ [][(CallTakeTokens /\ reply'.err = "nil"
           /\ reply.op = "take" /\ reply.err = "nil" /\ ~reply.allowed
           /\ reply.tokens.v > config.Capacity * Scale
           /\ (Lookup(bucket, clock).exists => bucket.tokens = config.Capacity * Scale)
           /\ reply'.tokens = Float(config.Capacity)) =>
            (reply'.allowed /\ reply'.remaining = 0 /\ bucket'.tokens = 0)]_vars

\* the first call on a key was a take of more than the capacity: it was
\* denied and the record it created holds the full capacity
C21_Witness ==
    /\ hist.ops = 1
    /\ reply.op = "take" /\ reply.err = "nil" /\ ~reply.allowed
    /\ reply.tokens = Float(config.Capacity + 1)
    /\ reply.remaining = config.Capacity
    /\ bucket.exists /\ bucket.tokens = config.Capacity * Scale

\* C22: over every sequence of take, get-state and reset calls the
\* last_refill stored at a key never decreases while the key holds a record
\* (nor when a record is written over one that has run out), and it is never
\* later than the store clock.
C22_LastRefillMonotone ==
    /\ [][(bucket.exists /\ bucket'.exists) =>
            bucket'.last_refill >= bucket.last_refill]_vars
    /\ [](bucket.exists => bucket.last_refill <= clock)

\* a live record refilled earlier was read by a get-state at the last tick,
\* which added tokens and moved last_refill to that tick
C22_Witness ==
    /\ clock = MaxClock
    /\ hist.ops >= 2
    /\ reply.op = "get-state" /\ reply.remaining > 0
    /\ reply.remaining < config.Capacity
    /\ bucket.exists /\ bucket.last_refill = MaxClock

\* C23: get-state refills lazily and returns the token count the next take
\* sees: for every n > 0, whole or fractional, the take of n issued right
\* after it at the same instant is allowed exactly when the tokens returned
\* are >= n; get-state never lowers the stored count; on a key with no record
\* it returns the capacity.
C23_StateIsWhatTakeSees ==
    [][CallGetBucketState =>
        /\ \A u \in 1..((MaxCapacity + 1) * Scale) :
              TakeTokens(bucket', config, Fraction(u), clock, 0).reply.allowed
                 <=> reply'.remaining * Scale >= u
        /\ (Lookup(bucket, clock).exists /\ bucket.capacity = config.Capacity) =>
              (bucket'.exists /\ bucket'.tokens >= bucket.tokens)
        /\ ~Lookup(bucket, clock).exists => reply'.remaining = config.Capacity]_vars

\* C24: every get-state re-arms the sliding TTL as a take does: after it,
\* also when it ran at the instant of the last refill or on a key with no
\* record, the key holds a record that expires the full TTL after the call,
\* and the TTL returned is the full TTL.
C24_GetStateRearmsTTL ==
    [][CallGetBucketState =>
        /\ bucket'.exists
        /\ bucket'.expires_at = clock + TTLSeconds * Scale
        /\ reply'.ttl = TTLSeconds]_vars

\* C25: a reset, from any record or none, leaves tokens = capacity,
\* last_refill = now and the full TTL; a second reset at once changes nothing
\* more, so any number of consecutive resets leave the same; the get-state
\* that follows a reset, at once or later, returns tokens = capacity.
C25_ResetIdempotent ==
    /\ [][CallResetBucket =>
            /\ reply'.err = "nil"
            /\ bucket' = Record(config.Capacity * Scale, clock, config.Capacity,
                                RefillRate, TTLSeconds)
            /\ ResetBucket(bucket', config, clock).bucket = bucket'
            /\ GetBucketState(bucket', config, clock).reply.remaining
                    = config.Capacity]_vars
    /\ [][(CallGetBucketState /\ reply.op = "reset"
           /\ (Lookup(bucket, clock).exists => bucket.capacity = config.Capacity)) =>
            reply'.remaining = config.Capacity]_vars

\* the last of the calls was a reset, issued at the last tick on a key that
\* had been used before: the record is full and refilled at that tick
C25_Witness ==
    /\ hist.ops = MaxOps
    /\ clock = MaxClock
    /\ reply.op = "reset" /\ reply.err = "nil"
    /\ bucket.exists /\ bucket.tokens = config.Capacity * Scale
    /\ bucket.last_refill = MaxClock
    /\ bucket.expires_at = MaxClock + TTLSeconds * Scale

\* the step is a take, get-state or reset on `key`
CalledOn(key) == hist'.ops = hist.ops + 1 /\ reply'.key = key

\* C26: a take, get-state or reset on a key leaves the record of every other
\* key as it was; a key no call has named holds no record, so whatever was
\* taken from the other keys, the first take on it of up to capacity tokens is
\* allowed.
C26_KeysIsolated ==
    /\ [][\A key \in Keys :
            CalledOn(key) =>
                \A other \in Keys \ {key} :
                    store'[keyName(other)] = store[keyName(other)]]_vars
    /\ [](\A key \in Keys \ touched : ~store[keyName(key)].exists)
    /\ [][\A key \in Keys :
            (CalledOn(key) /\ reply'.op = "take" /\ key \notin touched
             /\ reply'.tokens.v <= config.Capacity * Scale) => reply'.allowed]_vars

\* one key was drained by a take of capacity; the take of capacity that
\* followed on the other key was allowed, and the first key's record is as the
\* first take left it
C26_Witness ==
    /\ touched = Keys
    /\ hist.ops = 2
    /\ reply.op = "take" /\ reply.allowed /\ reply.key = "user2"
    /\ reply.tokens = Float(config.Capacity)
    /\ store[keyName("user1")].exists /\ store[keyName("user1")].tokens = 0
    /\ store[keyName("user2")].exists /\ store[keyName("user2")].tokens = 0
    /\ store[keyName("user1")].last_refill < store[keyName("user2")].last_refill

\* C27: over every sequence of allow calls, in whatever order the store
\* serves them and also when several carry the same millisecond timestamp, at
\* every instant t the allowed calls whose timestamp lies in (t - window, t]
\* are at most max-requests.
C27_WindowBound ==
    \A t \in 0..MaxWClock :
        GrantedIn(whist.allowed, Max(0, t - WindowSize + 1), t) <= MaxRequests

\* C28: the current_count an allow returns is the cardinality of the key's
\* set after the call; the i-th allowed call of a run that started on an
\* empty window, none of whose entries has left the window, returns i; a
\* denied call returns max-requests and leaves the members of the set as they
\* were.
C28_CountIsCardinality ==
    [][CallIsAllowed =>
        /\ wreply'.current_count = Cardinality(zset'.members)
        /\ (wreply'.allowed /\ whist'.run.valid) =>
                wreply'.current_count = whist'.run.n
        /\ ~wreply'.allowed =>
                /\ wreply'.current_count = MaxRequests
                /\ zset'.members = LookupSet(zset, wnow).members]_vars

\* the step is the window call `op`
WindowCall(op) == whist'.ops = whist.ops + 1 /\ wreply'.op = op

\* C29: after every allow or state call made at time now the set holds only
\* entries with timestamp > now - window; an allow that finds only entries
\* that are window milliseconds old or older (as after a full window has
\* passed since a saturating burst) is allowed, returns current_count = 1 and
\* leaves its own entry alone in the set.
C29_OnlyEntriesInWindow ==
    /\ [][(WindowCall("allow") \/ WindowCall("state")) =>
            \A m \in zset'.members : m > wreply'.window_end - WindowSize]_vars
    /\ [][(WindowCall("allow")
           /\ \A m \in LookupSet(zset, wnow).members :
                    m <= wreply'.window_end - WindowSize) =>
            /\ wreply'.allowed
            /\ wreply'.current_count = 1
            /\ zset'.members = {wreply'.window_end}]_vars

\* max-requests allows saturated the window, the last of them exactly window
\* milliseconds before the third call, an allow: it was allowed with
\* current_count = 1
C29_Witness ==
    /\ whist.ops = MaxRequests + 1
    /\ GrantedIn(whist.allowed, 0, MaxWClock - WindowSize) = MaxRequests
    /\ whist.allowed[MaxWClock - WindowSize] = 1
    /\ whist.allowed[MaxWClock] = 1
    /\ wreply.op = "allow" /\ wreply.allowed /\ wreply.current_count = 1
    /\ wreply.window_end = MaxWClock
    /\ zset.members = {MaxWClock}

\* C30: a denied allow returns retry-after = oldest entry + window - now,
\* clamped to the range 0..window, whatever set the allows of callers with
\* differing clocks have left.
C30_RetryAfterClamped ==
    [][(WindowCall("allow") /\ ~wreply'.allowed) =>
        LET oldest == Oldest(LookupSet(zset, wnow).members)
            due == oldest + WindowSize - wreply'.window_end
        IN /\ wreply'.retry_after = Min(WindowSize, Max(0, due))
           /\ wreply'.retry_after \in 0..WindowSize]_vars

\* C31: a state call returns the in-window count and inserts nothing: it
\* leaves the members it counted, a repeat of it changes nothing more, and an
\* allow at the same instant gives the same result and the same set as it
\* would have given without the state call; a clear deletes the set: the
\* state call that follows returns current_count = 0, and the first
\* max-requests allows after it are all allowed.
C31_StateReadsClearDeletes ==
    /\ [][WindowCall("state") =>
            LET stamp == wreply'.window_end
            IN /\ zset'.members \subseteq LookupSet(zset, wnow).members
               /\ wreply'.current_count = Cardinality(zset'.members)
               /\ GetWindowState(zset', stamp, wnow).zset = zset'
               /\ IsAllowed(zset', stamp, wnow) = IsAllowed(zset, stamp, wnow)]_vars
    /\ [][WindowCall("clear") => zset' = NoSet]_vars
    /\ [][(WindowCall("state") /\ wreply.op = "clear") =>
            wreply'.current_count = 0]_vars
    /\ []((whist.since_clear.valid /\ whist.since_clear.calls <= MaxRequests) =>
            whist.since_clear.allowed = whist.since_clear.calls)

\* a window that held an entry was cleared, and the max-requests allows that
\* followed were all allowed
C31_Witness ==
    /\ whist.ops = MaxRequests + 2
    /\ GrantedIn(whist.allowed, 0, MaxWClock) = MaxRequests + 1
    /\ whist.since_clear.valid
    /\ whist.since_clear.calls = MaxRequests
    /\ whist.since_clear.allowed = MaxRequests
    /\ wreply.op = "allow" /\ wreply.allowed /\ wreply.current_count = MaxRequests

WindowTypeOK ==
    /\ wnow \in 0..MaxWClock
    /\ whist.ops \in 0..MaxWOps
    /\ zset.members \subseteq 0..MaxWClock
    /\ zset.exists <=> zset.members # {}

\* the step is a request served by the middleware
Requested == hist'.ops = hist.ops + 1 /\ reply'.op = "request"

C33_KeyedByPartitionKeyOrAggregate ==
    \A i \in 1..Len(messages) :
        LET m == messages[i]
        IN /\ m.Key.set
           /\ m.Key.s = IF ~m.partition_key.nil /\ m.partition_key.s # ""
                        THEN m.partition_key.s
                        ELSE m.aggregate_id

\* the step is relay process w doing op on row id
Did(w, op, id) == tlog'[w] = Append(tlog[w], [op |-> op, ID |-> id])

PermanentlyFailed(row) ==
    row.status = StatusFailed /\ row.retry_count >= row.max_retries

\* the ids a relay process holds in its batch
Held(w) == {tbatch[w][k].ID : k \in 1..Len(tbatch[w])}

C37_RefusedClaimSkips ==
    /\ [][\A w \in Workers :
            /\ (tpc[w] = "events" /\ tlog'[w] # tlog[w]
                  /\ Head(tbatch[w]).RetryCount < Head(tbatch[w]).MaxRetries
                  /\ table[Head(tbatch[w]).ID].status # StatusNew) =>
                    Did(w, "refused", Head(tbatch[w]).ID)
            /\ \A id \in 1..Len(table) : Did(w, "refused", id) =>
                    /\ table[id].status # StatusNew
                    /\ table' = table
                    /\ tbatch'[w] = Tail(tbatch[w])
                    /\ tpc'[w] = (IF Len(tbatch[w]) > 1 THEN "events" ELSE "ticker")]_vars
    /\ [](\A w \in Workers : \A i, j \in 1..Len(tlog[w]) :
            (i < j /\ tlog[w][i].op = "refused") => tlog[w][j].ID # tlog[w][i].ID)

\* a relay process was refused the first row of its batch, which another
\* process had claimed, and went on to claim and publish the second
C37_Witness ==
    \E w \in Workers :
        /\ Len(tlog[w]) = 3
        /\ tlog[w][1].op = "refused"
        /\ tlog[w][2].op = "claimed" /\ tlog[w][2].ID # tlog[w][1].ID
        /\ tlog[w][3].op = "published"
        /\ table[tlog[w][1].ID].status = StatusProcessing
        /\ table[tlog[w][1].ID].retry_count = 0

\* C39: in every reachable state of the outbox each row has
\* 0 <= retry_count <= max_retries.
C39_RetryCountWithinBudget ==
    \A id \in 1..Len(table) :
        /\ 0 <= table[id].retry_count
        /\ table[id].retry_count <= table[id].max_retries

\* C38: every ready-made partition strategy returns an index in [0, n) for a
\* partition count n > 0 and 0 for n <= 0, after any number of earlier calls;
\* the hash strategies return the same index for the same key and count.
C38_PartitionInRange ==
    /\ [](partition.strategy # "none" =>
            IF partition.numPartitions > 0
            THEN partition.index \in 0..(partition.numPartitions - 1)
            ELSE partition.index = 0)
    /\ [][(pcalls' = pcalls + 1 /\ partition'.strategy \in {"hash", "user id"}
            /\ partition'.strategy = partition.strategy
            /\ partition'.key = partition.key
            /\ partition'.numPartitions = partition.numPartitions) =>
                partition'.index = partition.index]_vars

\* C40: at most one polling loop is active on a Relay object at any time,
\* and no Start call gets past the running check while a loop is active,
\* whatever the interleaving of Start calls and of Stop followed by Start.
C40_OneLoopPerRelay ==
    /\ Cardinality({g \in Callers : cpc[g] = "loop"}) <= 1
    /\ \A g, h \in Callers : cpc[g] = "loop" => cpc[h] # "checked"

BucketTypeOK ==
    /\ clock \in 0..MaxClock
    /\ config.Capacity \in 0..MaxCapacity
    /\ hist.ops \in 0..MaxOps
    /\ bucket.exists \in BOOLEAN

====
